---- MODULE Spec2Model ----
(***************************************************************************)
(* A model of the Mini-C compiler mccomp: token buffer, recursive-descent  *)
(* parser, symbol tables, type conversion and IR lowering, and the driver. *)
(* Every operator is translated from the function of the same name in      *)
(* src/mccomp.cpp (or, with the prefix ParserCpp_, in src/parser.cpp).      *)
(***************************************************************************)
EXTENDS Integers, Sequences, FiniteSets, TLC

VARIABLES
    CurTok,       \* static TOKEN CurTok
    tok_buffer,   \* static std::deque<TOKEN> tok_buffer
    source,       \* the tokens gettok() has still to produce from pFile
    ErrorLog,     \* static std::vector<CompilerError> ErrorLog
    HasErrors,    \* static bool HasErrors
    ast,          \* the node returned by the last parse function applied
    unit,         \* which translation unit's parser is applied to the input
    input,        \* the source text (its lexemes) the run was started on
    pc,           \* position of the driver / of the parse harness
    TheModule,    \* std::unique_ptr<Module> TheModule: its functions and their blocks
    Builder,      \* IRBuilder<> Builder: the insert block and the next value id
    NamedValues,  \* std::map<std::string, AllocaInst*> NamedValues
    GlobalValues, \* std::map<std::string, GlobalVariable*> GlobalValues
    SymbolTypeTable,        \* std::map<std::string, TypeInfo> SymbolTypeTable
    VariableTypes,          \* std::map<std::string, std::string> VariableTypes
    CurrentFunctionParams,  \* std::set<std::string> CurrentFunctionParams
    CurrentFunction,        \* Function* CurrentFunction ("" is nullptr)
    exitCode,     \* the exit status of the process, -1 while it runs
    output_ll,    \* whether the file output.ll has been written
    NDEBUG,       \* whether LLVM was built with NDEBUG (its assertions compiled out)
    Lexer         \* pFile and its read position, gettok's LastChar, lineNo and columnNo

lowering == <<TheModule, Builder, NamedValues, GlobalValues, SymbolTypeTable,
              VariableTypes, CurrentFunctionParams, CurrentFunction>>

vars == <<CurTok, tok_buffer, source, ErrorLog, HasErrors, ast, unit, input, pc,
          lowering, exitCode, output_ll, NDEBUG, Lexer>>

-----------------------------------------------------------------------------
(* Tokens: enum TOKEN_TYPE and class TOKEN.                                *)

Idents == {"a", "b", "c", "d", "e", "f", "g", "h", "x", "y", "n", "r", "v", "p", "X",
           "main", "even", "odd", "side_effect", "result", "print_int", "print_float"}
IntLits == {"0", "1", "5", "10"}
FloatLits == {"0.0", "1.5"}
BoolLits == {"true", "false"}

Punct ==
    [ lex \in {"=", "{", "}", "(", ")", "[", "]", ";", ",", "int", "void",
               "float", "bool", "extern", "if", "else", "while", "return",
               "&&", "||", "+", "-", "*", "/", "%", "!", "==", "!=", "<=",
               "<", ">=", ">"} |->
      CASE lex = "="      -> "ASSIGN"
        [] lex = "{"      -> "LBRA"
        [] lex = "}"      -> "RBRA"
        [] lex = "("      -> "LPAR"
        [] lex = ")"      -> "RPAR"
        [] lex = "["      -> "LBOX"
        [] lex = "]"      -> "RBOX"
        [] lex = ";"      -> "SC"
        [] lex = ","      -> "COMMA"
        [] lex = "int"    -> "INT_TOK"
        [] lex = "void"   -> "VOID_TOK"
        [] lex = "float"  -> "FLOAT_TOK"
        [] lex = "bool"   -> "BOOL_TOK"
        [] lex = "extern" -> "EXTERN"
        [] lex = "if"     -> "IF"
        [] lex = "else"   -> "ELSE"
        [] lex = "while"  -> "WHILE"
        [] lex = "return" -> "RETURN"
        [] lex = "&&"     -> "AND"
        [] lex = "||"     -> "OR"
        [] lex = "+"      -> "PLUS"
        [] lex = "-"      -> "MINUS"
        [] lex = "*"      -> "ASTERIX"
        [] lex = "/"      -> "DIV"
        [] lex = "%"      -> "MOD"
        [] lex = "!"      -> "NOT"
        [] lex = "=="     -> "EQ"
        [] lex = "!="     -> "NE"
        [] lex = "<="     -> "LE"
        [] lex = "<"      -> "LT"
        [] lex = ">="     -> "GE"
        [] lex = ">"      -> "GT" ]

\* The token gettok() returns for a lexeme.
TOKEN(lex) ==
    [ type |-> CASE lex \in Idents    -> "IDENT"
                 [] lex \in IntLits   -> "INT_LIT"
                 [] lex \in FloatLits -> "FLOAT_LIT"
                 [] lex \in BoolLits  -> "BOOL_LIT"
                 [] OTHER             -> Punct[lex],
      lexeme |-> lex ]

EOF_TOK == [type |-> "EOF_TOK", lexeme |-> "0"]

\* A source text, given as the sequence of its lexemes.
Lex(text) == [i \in DOMAIN text |-> TOKEN(text[i])]

\* TOKEN::getIntVal: strtod of the lexeme.
getIntVal(tok) ==
    CASE tok.lexeme = "0"  -> 0
      [] tok.lexeme = "1"  -> 1
      [] tok.lexeme = "5"  -> 5
      [] tok.lexeme = "10" -> 10

\* TOKEN::getBoolVal
getBoolVal(tok) == tok.lexeme = "true"

-----------------------------------------------------------------------------
(* Token buffer.  A parser state p is a record with (at least) the fields   *)
(*   cur = CurTok, buf = tok_buffer, src = the lexer's unread input,        *)
(*   errs = ErrorLog, has = HasErrors.                                      *)

\* ---- the lexer on the bytes of pFile ----

\* What getc returns at the end of pFile.
EOF == "EOF"

Letters == {"a", "b", "_"}
Digits == {"0", "1"}
isspace(c) == c \in {" ", "\t", "\n", "\r"}
isalpha(c) == c \in Letters \ {"_"}
isdigit(c) == c \in Digits
isalnum(c) == isalpha(c) \/ isdigit(c)

\* The lexer before the first call of gettok on a file: LastChar is ' ',
\* and main() has set lineNo and columnNo to 1.  reads counts the calls of
\* getc made once the end of the file had been reached.
LexerStart(file) ==
    [pFile |-> file, pos |-> 0, reads |-> 0, LastChar |-> " ", lineNo |-> 1, columnNo |-> 1]

\* LastChar = getc(pFile)
getc(lx) ==
    IF lx.pos < Len(lx.pFile)
    THEN [lx EXCEPT !.LastChar = lx.pFile[lx.pos + 1], !.pos = @ + 1]
    ELSE [lx EXCEPT !.LastChar = EOF, !.reads = @ + 1]

Advance(lx, n) == [lx EXCEPT !.columnNo = @ + n]

keywords ==
    [int |-> "INT_TOK", bool |-> "BOOL_TOK", float |-> "FLOAT_TOK", void |-> "VOID_TOK",
     extern |-> "EXTERN", if |-> "IF", else |-> "ELSE", while |-> "WHILE",
     return |-> "RETURN", true |-> "BOOL_LIT", false |-> "BOOL_LIT"]

returnTok(lx, lexVal, length, tok_type) ==
    [tok |-> [lexeme |-> lexVal, type |-> tok_type, length |-> length,
              lineNo |-> lx.lineNo, columnNo |-> lx.columnNo - length - 1],
     lx |-> lx]

\* while (isspace(LastChar)) { ... }
RECURSIVE SkipWhitespace(_)
SkipWhitespace(lx) ==
    IF isspace(lx.LastChar)
    THEN SkipWhitespace(Advance(getc(IF lx.LastChar \in {"\n", "\r"}
                                     THEN [lx EXCEPT !.lineNo = @ + 1, !.columnNo = 1]
                                     ELSE lx), 1))
    ELSE lx

\* while (isalnum((LastChar = getc(pFile))) || (LastChar == '_')) { ... }
RECURSIVE IdentifierRest(_, _, _)
IdentifierRest(lx, globalLexeme, length) ==
    LET Read(r) ==
            IF isalnum(r.LastChar) \/ r.LastChar = "_"
            THEN IdentifierRest(Advance(r, 1), globalLexeme \o r.LastChar, length + 1)
            ELSE returnTok(r, globalLexeme, length,
                           IF globalLexeme \in DOMAIN keywords THEN keywords[globalLexeme]
                           ELSE "IDENT")
    IN Read(getc(lx))

\* do { NumStr += LastChar; LastChar = getc(pFile); columnNo++; } while (isdigit(LastChar));
RECURSIVE NumberPart(_, _, _)
NumberPart(lx, NumStr, length) ==
    LET Read(r) ==
            IF isdigit(r.LastChar)
            THEN NumberPart(r, NumStr \o lx.LastChar, length + 1)
            ELSE [lx |-> r, NumStr |-> NumStr \o lx.LastChar, length |-> length + 1]
    IN Read(Advance(getc(lx), 1))

Number(lx) ==
    LET Fraction(n) == returnTok(n.lx, n.NumStr, n.length, "FLOAT_LIT")
        Whole(n) ==
            IF n.lx.LastChar = "."
            THEN Fraction(NumberPart(n.lx, n.NumStr, n.length))
            ELSE returnTok(n.lx, n.NumStr, n.length, "INT_LIT")
    IN IF lx.LastChar = "."
       THEN Fraction(NumberPart(lx, "", 0))
       ELSE Whole(NumberPart(lx, "", 0))

\* handleSingleChar returning the token without reading the next character.
handleSingleChar_NoRead(lx, c, tokType) == returnTok(Advance(lx, 1), c, 1, tokType)

handleSingleChar(lx, c, tokType) == returnTok(Advance(getc(lx), 1), c, 1, tokType)

handleTwoChar(lx, second, twoCharOp, twoCharTok, oneCharOp, oneCharTok) ==
    LET Read(n) ==
            IF n.LastChar = second
            THEN returnTok(Advance(getc(n), 2), twoCharOp, 2, twoCharTok)
            ELSE returnTok(Advance(n, 1), oneCharOp, 1, oneCharTok)
    IN Read(getc(lx))

\* do { LastChar = getc(pFile); columnNo++; } while (LastChar is in the comment);
RECURSIVE SkipComment(_)
SkipComment(lx) ==
    LET Read(r) == IF r.LastChar \in {EOF, "\n", "\r"} THEN r ELSE SkipComment(r)
    IN Read(Advance(getc(lx), 1))

SingleChars ==
    [c \in {"{", "}", "(", ")", ";", ","} |->
        CASE c = "{" -> "LBRA" [] c = "}" -> "RBRA" [] c = "(" -> "LPAR"
          [] c = ")" -> "RPAR" [] c = ";" -> "SC" [] c = "," -> "COMMA"]

TwoChars ==
    [c \in {"&", "|", "!", "<", ">"} |->
        CASE c = "&" -> <<"&", "&&", "AND", "&", "&">>
          [] c = "|" -> <<"|", "||", "OR", "|", "|">>
          [] c = "!" -> <<"=", "!=", "NE", "!", "NOT">>
          [] c = "<" -> <<"=", "<=", "LE", "<", "LT">>
          [] c = ">" -> <<"=", ">=", "GE", ">", "GT">>]

\* gettok() on the bytes of pFile: the token returned and the lexer after the call.
RECURSIVE Lexer_gettok(_)
Lexer_gettok(lexer) ==
    LET EndOfFile(lx) ==
            IF lx.LastChar = EOF
            THEN returnTok(Advance(lx, 1), "0", 1, "EOF_TOK")
            ELSE returnTok(Advance(getc(lx), 1), lx.LastChar, 1, lx.LastChar)
        Slash(r) ==
            LET Comment(e) == IF e.LastChar # EOF THEN Lexer_gettok(e) ELSE EndOfFile(e)
            IN IF r.LastChar = "/" THEN Comment(SkipComment(r))
               ELSE returnTok(r, "/", 1, "DIV")
        Token(lx) ==
            CASE isalpha(lx.LastChar) \/ lx.LastChar = "_" ->
                    IdentifierRest(Advance(lx, 1), lx.LastChar, 1)
              [] lx.LastChar = "=" ->
                    handleTwoChar(lx, "=", "==", "EQ", "=", "ASSIGN")
              [] lx.LastChar \in DOMAIN SingleChars ->
                    handleSingleChar(lx, lx.LastChar, SingleChars[lx.LastChar])
              [] isdigit(lx.LastChar) \/ lx.LastChar = "." -> Number(lx)
              [] lx.LastChar \in DOMAIN TwoChars ->
                    LET t == TwoChars[lx.LastChar]
                    IN handleTwoChar(lx, t[1], t[2], t[3], t[4], t[5])
              [] lx.LastChar = "/" -> Slash(Advance(getc(lx), 1))
              [] OTHER -> EndOfFile(lx)
    IN Token(SkipWhitespace(lexer))


\* gettok(): the next token of the input; EOF again and again at its end.
gettok(p) ==
    IF p.src = << >>
      THEN [tok |-> EOF_TOK, p |-> p]
      ELSE [tok |-> Head(p.src), p |-> [p EXCEPT !.src = Tail(p.src)]]

\* tok_buffer.push_back(gettok())
Buffered(g) == [g.p EXCEPT !.buf = Append(g.p.buf, g.tok)]

getNextToken(p) ==
    LET Front(q) == [q EXCEPT !.cur = Head(q.buf), !.buf = Tail(q.buf)]
    IN  Front(IF p.buf = << >> THEN Buffered(gettok(p)) ELSE p)

\* putBackToken with push_back in the place of push_front.
putBackToken_AtBack(p, tok) == [p EXCEPT !.buf = Append(p.buf, tok)]

putBackToken(p, tok) == [p EXCEPT !.buf = <<tok>> \o p.buf]

RECURSIVE FillBuffer(_, _)
FillBuffer(p, offset) ==
    IF Len(p.buf) <= offset THEN FillBuffer(Buffered(gettok(p)), offset) ELSE p

\* peekToken(offset): the state with the buffer filled, and the token peeked.
peekToken(p, offset) ==
    LET Peeked(q) == [tok |-> q.buf[offset + 1], p |-> q]
    IN  Peeked(FillBuffer(p, offset))

peekNextToken(p) == peekToken(p, 0)

-----------------------------------------------------------------------------
(* Diagnostics.                                                            *)

\* LogCompilerError: HasErrors = true; ErrorLog.emplace_back(type, msg, ...).
\* s is any record holding the fields errs (ErrorLog) and has (HasErrors).
\* LogCompilerError without its first statement, HasErrors = true.
LogCompilerError_NoFlag(s, type, msg) ==
    [s EXCEPT !.errs = Append(s.errs, [type |-> type, msg |-> msg])]

LogCompilerError(s, type, msg) ==
    [s EXCEPT !.has = TRUE, !.errs = Append(s.errs, [type |-> type, msg |-> msg])]

\* LogError(tok, Str): a Syntax error; the production returns no node.
LogError(p, msg) == LogCompilerError(p, "Syntax", msg)

-----------------------------------------------------------------------------
(* AST nodes.                                                              *)

Null == [kind |-> "Null"]
IntASTnode(v) == [kind |-> "Int", val |-> v]
FloatASTnode(lex) == [kind |-> "Float", val |-> lex]
BoolASTnode(b) == [kind |-> "Bool", val |-> b]
VariableASTnode(name) == [kind |-> "Var", name |-> name]
BinaryExprAST(op, lhs, rhs) == [kind |-> "Binary", op |-> op, lhs |-> lhs, rhs |-> rhs]
UnaryExprAST(op, operand) == [kind |-> "Unary", op |-> op, operand |-> operand]
CallExprAST(callee, args) == [kind |-> "Call", callee |-> callee, args |-> args]
AssignmentExprAST(name, rhs) == [kind |-> "Assign", name |-> name, rhs |-> rhs]
ArrayAccessAST(name, indices) == [kind |-> "ArrayAccess", name |-> name, indices |-> indices]
ArrayAssignmentExprAST(lhs, rhs) == [kind |-> "ArrayAssign", lhs |-> lhs, rhs |-> rhs]

isArrayAccess(node) == node.kind = "ArrayAccess"
isAssignment_ScalarOnly(node) == node.kind = "Assign"
isAssignment(node) == node.kind \in {"Assign", "ArrayAssign"}

\* A parse function returns the node (Null for "no node") and the new state.
Ret(node, p) == [node |-> node, p |-> p]

-----------------------------------------------------------------------------
(* Expression parser of src/mccomp.cpp.                                    *)

RECURSIVE Parse(_, _)
RECURSIVE ParseExper(_), ParsePrimaryExpr(_), ParseUnaryExpr(_),
          ParseHigher(_, _), ParseBinaryLoop(_, _, _, _),
          ParseFunctionCallArgs(_, _, _), ParseArrayAccess(_, _),
          ParseArrayAccessCont(_, _), ParseArrayAccessCont2(_, _)

ParseIntNumberExpr(p) == Ret(IntASTnode(getIntVal(p.cur)), getNextToken(p))
ParseFloatNumberExpr(p) == Ret(FloatASTnode(p.cur.lexeme), getNextToken(p))
ParseBoolExpr(p) == Ret(BoolASTnode(getBoolVal(p.cur)), getNextToken(p))

\* The while loop of ParseFunctionCall: "," expr, repeated.
ParseFunctionCallArgs(callee, args, p) ==
    IF p.cur.type = "COMMA"
      THEN LET Arg(a) == IF a.node = Null THEN Ret(Null, a.p)
                         ELSE ParseFunctionCallArgs(callee, Append(args, a.node), a.p)
           IN  Arg(ParseExper(getNextToken(p)))
      ELSE Ret(CallExprAST(callee, args), p)

\* Called after IDENT "(" has been consumed.
ParseFunctionCall(callee, p) ==
    IF p.cur.type = "RPAR" THEN Ret(CallExprAST(callee, << >>), p)
    ELSE LET Arg(a) == IF a.node = Null THEN Ret(Null, a.p)
                       ELSE ParseFunctionCallArgs(callee, <<a.node>>, a.p)
         IN  Arg(ParseExper(p))

\* array_access_cont2 ::= "[" expr "]" | eps ; node is the list of indices.
ParseArrayAccessCont2(indices, p) ==
    IF p.cur.type = "LBOX"
      THEN LET Index(i) ==
                 IF i.node = Null THEN [ok |-> FALSE, indices |-> indices, p |-> i.p]
                 ELSE IF i.p.cur.type # "RBOX"
                   THEN [ok |-> FALSE, indices |-> indices,
                         p |-> LogError(i.p, "expected ']' after array index")]
                 ELSE LET q == getNextToken(i.p)
                      IN  IF q.cur.type = "LBOX"
                            THEN [ok |-> FALSE, indices |-> indices,
                                  p |-> LogError(q, "arrays with more than 3 dimensions are not supported")]
                            ELSE [ok |-> TRUE, indices |-> Append(indices, i.node), p |-> q]
           IN  Index(ParseExper(getNextToken(p)))
      ELSE [ok |-> TRUE, indices |-> indices, p |-> p]

\* array_access_cont ::= "[" expr "]" array_access_cont2 | eps
ParseArrayAccessCont(indices, p) ==
    IF p.cur.type = "LBOX"
      THEN LET Index(i) ==
                 IF i.node = Null THEN [ok |-> FALSE, indices |-> indices, p |-> i.p]
                 ELSE IF i.p.cur.type # "RBOX"
                   THEN [ok |-> FALSE, indices |-> indices,
                         p |-> LogError(i.p, "expected ']' after array index")]
                 ELSE ParseArrayAccessCont2(Append(indices, i.node), getNextToken(i.p))
           IN  Index(ParseExper(getNextToken(p)))
      ELSE [ok |-> TRUE, indices |-> indices, p |-> p]

ParseArrayAccess(arrayName, p) ==
    IF p.cur.type # "LBOX"
      THEN Ret(Null, LogError(p, "expected '[' for array access"))
    ELSE LET Cont(c) == IF ~c.ok THEN Ret(Null, c.p)
                        ELSE Ret(ArrayAccessAST(arrayName, c.indices), c.p)
             Index(i) ==
                 IF i.node = Null THEN Ret(Null, i.p)
                 ELSE IF i.p.cur.type # "RBOX"
                   THEN Ret(Null, LogError(i.p, "expected ']' after array index"))
                 ELSE Cont(ParseArrayAccessCont(<<i.node>>, getNextToken(i.p)))
         IN  Index(ParseExper(getNextToken(p)))

ParsePrimaryExpr(p) ==
    CASE p.cur.type = "LPAR" ->
           LET Paren(e) == IF e.node = Null THEN Ret(Null, e.p)
                           ELSE IF e.p.cur.type # "RPAR"
                             THEN Ret(Null, LogError(e.p, "expected ')'"))
                           ELSE Ret(e.node, getNextToken(e.p))
           IN  Paren(ParseExper(getNextToken(p)))
      [] p.cur.type = "IDENT" ->
           LET idName == p.cur.lexeme
               Call(call) == IF call.node = Null THEN Ret(Null, call.p)
                             ELSE IF call.p.cur.type # "RPAR"
                               THEN Ret(Null, LogError(call.p, "expected ')' after arguments"))
                             ELSE Ret(call.node, getNextToken(call.p))
               Ident(q) == CASE q.cur.type = "LPAR" ->
                                  Call(ParseFunctionCall(idName, getNextToken(q)))
                             [] q.cur.type = "LBOX" -> ParseArrayAccess(idName, q)
                             [] OTHER -> Ret(VariableASTnode(idName), q)
           IN  Ident(getNextToken(p))
      [] p.cur.type = "INT_LIT" -> ParseIntNumberExpr(p)
      [] p.cur.type = "FLOAT_LIT" -> ParseFloatNumberExpr(p)
      [] p.cur.type = "BOOL_LIT" -> ParseBoolExpr(p)
      [] OTHER -> Ret(Null, LogError(p, "expected expression"))

ParseUnaryExpr(p) ==
    IF p.cur.type \in {"MINUS", "NOT"}
      THEN LET Op == IF p.cur.type = "MINUS" THEN "-" ELSE "!"
               Operand(o) == IF o.node = Null THEN Ret(Null, o.p)
                             ELSE Ret(UnaryExprAST(Op, o.node), o.p)
           IN  Operand(ParseUnaryExpr(getNextToken(p)))
      ELSE ParsePrimaryExpr(p)

\* The operator lists ParseMulExpr .. ParseOrExpr hand to ParseBinaryExpr:
\* token type -> operator string, per ladder level.
MulOps == [t \in {"ASTERIX", "DIV", "MOD"} |->
             CASE t = "ASTERIX" -> "*" [] t = "DIV" -> "/" [] t = "MOD" -> "%"]
AddOps == [t \in {"PLUS", "MINUS"} |-> IF t = "PLUS" THEN "+" ELSE "-"]
RelOps == [t \in {"LT", "LE", "GT", "GE"} |->
             CASE t = "LT" -> "<" [] t = "LE" -> "<=" [] t = "GT" -> ">" [] t = "GE" -> ">="]
EqOps == [t \in {"EQ", "NE"} |-> IF t = "EQ" THEN "==" ELSE "!="]
AndOps == [t \in {"AND"} |-> "&&"]
OrOps == [t \in {"OR"} |-> "||"]

\* The loop of ParseBinaryExpr made to parse the rest of the chain as the
\* right operand (a right-associative level).
ParseBinaryLoop_RightAssoc(level, ops, LHS, p) ==
    IF p.cur.type \notin DOMAIN ops THEN Ret(LHS, p)
    ELSE LET op == ops[p.cur.type]
             Rhs(R) == IF R.node = Null THEN Ret(Null, R.p)
                       ELSE Ret(BinaryExprAST(op, LHS, R.node), R.p)
             Rest(L) == IF L.node = Null THEN Ret(Null, L.p)
                        ELSE ParseBinaryLoop(level, ops, L.node, L.p)
         IN  Rhs(Rest(ParseHigher(level, getNextToken(p))))

\* The while (true) loop of ParseBinaryExpr.
ParseBinaryLoop(level, ops, LHS, p) ==
    IF p.cur.type \notin DOMAIN ops THEN Ret(LHS, p)
    ELSE LET op == ops[p.cur.type]
             Rhs(R) == IF R.node = Null THEN Ret(Null, R.p)
                       ELSE ParseBinaryLoop(level, ops, BinaryExprAST(op, LHS, R.node), R.p)
         IN  Rhs(ParseHigher(level, getNextToken(p)))

\* ParseBinaryExpr(parseHigher, ops) for the ladder level named `level`.
ParseBinaryExpr(level, ops, p) ==
    LET Lhs(L) == IF L.node = Null THEN Ret(Null, L.p)
                  ELSE ParseBinaryLoop(level, ops, L.node, L.p)
    IN  Lhs(ParseHigher(level, p))

\* ParseMulExpr handed the additive operator list (a wrong ladder entry).
ParseMulExpr_AddOps(p) == ParseBinaryExpr("Mul", AddOps, p)

ParseMulExpr(p) == ParseBinaryExpr("Mul", MulOps, p)
ParseAddExpr(p) == ParseBinaryExpr("Add", AddOps, p)
ParseRelExpr(p) == ParseBinaryExpr("Rel", RelOps, p)
ParseEqExpr(p) == ParseBinaryExpr("Eq", EqOps, p)
ParseAndExpr(p) == ParseBinaryExpr("And", AndOps, p)
ParseOrExpr(p) == ParseBinaryExpr("Or", OrOps, p)

\* The parseHigher argument each ladder function passes.
ParseHigher(level, p) ==
    CASE level = "Mul" -> ParseUnaryExpr(p)
      [] level = "Add" -> ParseMulExpr(p)
      [] level = "Rel" -> ParseAddExpr(p)
      [] level = "Eq"  -> ParseRelExpr(p)
      [] level = "And" -> ParseEqExpr(p)
      [] level = "Or"  -> ParseAndExpr(p)

ParseExper(p) ==
    LET Rhs(RHS) == IF RHS.node = Null THEN Ret(Null, RHS.p)
                    ELSE Ret(AssignmentExprAST(p.cur.lexeme, RHS.node), RHS.p)
        ArrayRhs(LHS, RHS) == IF RHS.node = Null THEN Ret(Null, RHS.p)
                              ELSE Ret(ArrayAssignmentExprAST(LHS.node, RHS.node), RHS.p)
        Lhs(LHS) == IF LHS.node = Null THEN Ret(Null, LHS.p)
                    ELSE IF isArrayAccess(LHS.node) /\ LHS.p.cur.type = "ASSIGN"
                      THEN ArrayRhs(LHS, ParseExper(getNextToken(LHS.p)))
                    ELSE Ret(LHS.node, LHS.p)
        Peeked(next) == IF next.tok.type = "ASSIGN"
                          THEN Rhs(ParseExper(getNextToken(getNextToken(next.p))))
                          ELSE Lhs(Parse("ParseOrExpr", next.p))
    IN  IF p.cur.type = "IDENT" THEN Peeked(peekNextToken(p))
        ELSE Lhs(Parse("ParseOrExpr", p))

-----------------------------------------------------------------------------
(* Expression parser of src/parser.cpp (precedence climbing, written out   *)
(* level by level; assignment detection by consume-and-put-back).          *)

RECURSIVE ParserCpp_ParseExper(_), ParserCpp_ParsePrimaryExpr(_),
          ParserCpp_ParseUnaryExpr(_), ParserCpp_Operand(_, _),
          ParserCpp_While(_, _, _), ParserCpp_ParseFunctionCallArgs(_, _, _)

ParserCpp_ParseFunctionCallArgs(callee, args, p) ==
    IF p.cur.type = "COMMA"
      THEN LET Arg(a) == IF a.node = Null THEN Ret(Null, a.p)
                         ELSE ParserCpp_ParseFunctionCallArgs(callee, Append(args, a.node), a.p)
           IN  Arg(ParserCpp_ParseExper(getNextToken(p)))
      ELSE Ret(CallExprAST(callee, args), p)

ParserCpp_ParseFunctionCall(callee, p) ==
    IF p.cur.type = "RPAR" THEN Ret(CallExprAST(callee, << >>), p)
    ELSE LET Arg(a) == IF a.node = Null THEN Ret(Null, a.p)
                       ELSE ParserCpp_ParseFunctionCallArgs(callee, <<a.node>>, a.p)
         IN  Arg(ParserCpp_ParseExper(p))

ParserCpp_ParsePrimaryExpr(p) ==
    CASE p.cur.type = "LPAR" ->
           LET Paren(e) == IF e.node = Null THEN Ret(Null, e.p)
                           ELSE IF e.p.cur.type # "RPAR"
                             THEN Ret(Null, LogError(e.p, "expected ')'"))
                           ELSE Ret(e.node, getNextToken(e.p))
           IN  Paren(ParserCpp_ParseExper(getNextToken(p)))
      [] p.cur.type = "IDENT" ->
           LET idName == p.cur.lexeme
               Call(call) == IF call.node = Null THEN Ret(Null, call.p)
                             ELSE IF call.p.cur.type # "RPAR"
                               THEN Ret(Null, LogError(call.p, "expected ')' after arguments"))
                             ELSE Ret(call.node, getNextToken(call.p))
               Ident(q) == IF q.cur.type = "LPAR"
                             THEN Call(ParserCpp_ParseFunctionCall(idName, getNextToken(q)))
                             ELSE Ret(VariableASTnode(idName), q)
           IN  Ident(getNextToken(p))
      [] p.cur.type = "INT_LIT" -> ParseIntNumberExpr(p)
      [] p.cur.type = "FLOAT_LIT" -> ParseFloatNumberExpr(p)
      [] p.cur.type = "BOOL_LIT" -> ParseBoolExpr(p)
      [] OTHER -> Ret(Null, LogError(p, "expected expression"))

ParserCpp_ParseUnaryExpr(p) ==
    IF p.cur.type \in {"MINUS", "NOT"}
      THEN LET Op == IF p.cur.type = "MINUS" THEN "-" ELSE "!"
               Operand(o) == IF o.node = Null THEN Ret(Null, o.p)
                             ELSE Ret(UnaryExprAST(Op, o.node), o.p)
           IN  Operand(ParserCpp_ParseUnaryExpr(getNextToken(p)))
      ELSE ParserCpp_ParsePrimaryExpr(p)

\* The operator string each level's while loop picks for the current token
\* (the loop runs while the token type is in the domain).
ParserCpp_Ops(level) ==
    CASE level = "Mul" -> [t \in {"ASTERIX", "DIV", "MOD"} |->
                             IF t = "ASTERIX" THEN "*" ELSE IF t = "DIV" THEN "/" ELSE "%"]
      [] level = "Add" -> [t \in {"PLUS", "MINUS"} |-> IF t = "PLUS" THEN "+" ELSE "-"]
      [] level = "Rel" -> [t \in {"LT", "LE", "GT", "GE"} |->
                             IF t = "LT" THEN "<" ELSE IF t = "LE" THEN "<="
                             ELSE IF t = "GT" THEN ">" ELSE ">="]
      [] level = "Eq"  -> [t \in {"EQ", "NE"} |-> IF t = "EQ" THEN "==" ELSE "!="]
      [] level = "And" -> [t \in {"AND"} |-> "&&"]
      [] level = "Or"  -> [t \in {"OR"} |-> "||"]

\* The while loop of ParseMulExpr .. ParseOrExpr.
ParserCpp_While(level, LHS, p) ==
    IF p.cur.type \notin DOMAIN ParserCpp_Ops(level) THEN Ret(LHS, p)
    ELSE LET op == ParserCpp_Ops(level)[p.cur.type]
             Rhs(R) == IF R.node = Null THEN Ret(Null, R.p)
                       ELSE ParserCpp_While(level, BinaryExprAST(op, LHS, R.node), R.p)
         IN  Rhs(ParserCpp_Operand(level, getNextToken(p)))

ParserCpp_Level(level, p) ==
    LET Lhs(L) == IF L.node = Null THEN Ret(Null, L.p)
                  ELSE ParserCpp_While(level, L.node, L.p)
    IN  Lhs(ParserCpp_Operand(level, p))

ParserCpp_ParseMulExpr(p) == ParserCpp_Level("Mul", p)
ParserCpp_ParseAddExpr(p) == ParserCpp_Level("Add", p)
ParserCpp_ParseRelExpr(p) == ParserCpp_Level("Rel", p)
ParserCpp_ParseEqExpr(p) == ParserCpp_Level("Eq", p)
ParserCpp_ParseAndExpr(p) == ParserCpp_Level("And", p)
ParserCpp_ParseOrExpr(p) == ParserCpp_Level("Or", p)

\* The function each level calls for its operands.
ParserCpp_Operand(level, p) ==
    CASE level = "Mul" -> ParserCpp_ParseUnaryExpr(p)
      [] level = "Add" -> ParserCpp_ParseMulExpr(p)
      [] level = "Rel" -> ParserCpp_ParseAddExpr(p)
      [] level = "Eq"  -> ParserCpp_ParseRelExpr(p)
      [] level = "And" -> ParserCpp_ParseEqExpr(p)
      [] level = "Or"  -> ParserCpp_ParseAndExpr(p)

\* The else branch of ParseExper without the restoring CurTok = varTok.
ParserCpp_PutBack_NoRestore(q, varTok) == putBackToken(q, q.cur)

\* The else branch of ParseExper: putBackToken(CurTok); CurTok = varTok.
ParserCpp_PutBack(q, varTok) == [putBackToken(q, q.cur) EXCEPT !.cur = varTok]

ParserCpp_ParseExper(p) ==
    IF p.cur.type = "IDENT"
      THEN LET Rhs(RHS) == IF RHS.node = Null THEN Ret(Null, RHS.p)
                           ELSE Ret(AssignmentExprAST(p.cur.lexeme, RHS.node), RHS.p)
               Consumed(q) == IF q.cur.type = "ASSIGN"
                                THEN Rhs(ParserCpp_ParseExper(getNextToken(q)))
                                ELSE ParserCpp_ParseOrExpr(ParserCpp_PutBack(q, p.cur))
           IN  Consumed(getNextToken(p))
      ELSE ParserCpp_ParseOrExpr(p)

-----------------------------------------------------------------------------
(* Statement and declaration nodes.                                        *)

VarDeclAST(name, type) == [kind |-> "VarDecl", name |-> name, type |-> type]
ArrayDeclAST(name, type, dims, isGlobal) ==
    [kind |-> "ArrayDecl", name |-> name, type |-> type, dims |-> dims, isGlobal |-> isGlobal]
GlobVarDeclAST(name, type) == [kind |-> "GlobVarDecl", name |-> name, type |-> type]
BlockAST(decls, stmts) == [kind |-> "Block", LocalDecls |-> decls, Stmts |-> stmts]
IfExprAST(cond, then, else) == [kind |-> "If", Cond |-> cond, Then |-> then, Else |-> else]
WhileExprAST(cond, body) == [kind |-> "While", Cond |-> cond, Body |-> body]
ReturnAST(val) == [kind |-> "Return", Val |-> val]
ParamAST(name, type) == [kind |-> "Param", name |-> name, type |-> type]
FunctionPrototypeAST(name, type, params) ==
    [kind |-> "Proto", name |-> name, type |-> type, params |-> params]
FunctionDeclAST(proto, block) == [kind |-> "FunctionDecl", Proto |-> proto, Block |-> block]

\* A parse function of list type returns the list and the new state.
RetList(list, p) == [list |-> list, p |-> p]

-----------------------------------------------------------------------------
(* Parameters and array dimensions.                                        *)

RECURSIVE ParseParamDims(_, _, _, _), ParseParamListPrime(_, _), DimSuffix(_)

\* "[d2][d3]": the inner dimensions appended to a pointer parameter's type.
DimSuffix(dims) ==
    IF dims = << >> THEN ""
    ELSE "[" \o ToString(Head(dims)) \o "]" \o DimSuffix(Tail(dims))

\* The while (CurTok.type == LBOX) loop of ParseParam and what follows it.
ParseParamDims(Type, Name, dims, p) ==
    IF p.cur.type = "LBOX"
      THEN LET q == getNextToken(p)
               sized == q.cur.type = "INT_LIT"
               r == IF sized THEN getNextToken(q) ELSE q
           IN  IF r.cur.type # "RBOX"
                 THEN Ret(Null, LogError(r, "expected ']' in parameter array declaration"))
                 ELSE ParseParamDims(Type, Name,
                                     IF sized THEN Append(dims, getIntVal(q.cur)) ELSE dims,
                                     getNextToken(r))
      ELSE Ret(ParamAST(Name, IF dims = << >> THEN Type
                              ELSE Type \o "*" \o DimSuffix(Tail(dims))), p)

ParseParam(p) ==
    LET q == getNextToken(p)
    IN  IF q.cur.type = "IDENT"
          THEN ParseParamDims(p.cur.lexeme, q.cur.lexeme, << >>, getNextToken(q))
          ELSE Ret(Null, LogError(q, "expected identifier in parameter declaration"))

ParseParamListPrime(list, p) ==
    CASE p.cur.type = "COMMA" ->
           LET Param(a) == IF a.node = Null THEN RetList(list, a.p)
                           ELSE ParseParamListPrime(Append(list, a.node), a.p)
           IN  Param(ParseParam(getNextToken(p)))
      [] p.cur.type = "RPAR" -> RetList(list, p)
      [] OTHER -> RetList(list, LogError(p, "expected ',' or ')' in list of parameter declarations"))

ParseParamList(p) ==
    LET Param(a) == IF a.node = Null THEN RetList(<< >>, a.p)
                    ELSE ParseParamListPrime(<<a.node>>, a.p)
    IN  Param(ParseParam(p))

ParseParams(p) ==
    CASE p.cur.type \in {"INT_TOK", "FLOAT_TOK", "BOOL_TOK"} -> ParseParamList(p)
      [] p.cur.type = "VOID_TOK" ->
           LET q == getNextToken(p)
           IN  IF q.cur.type # "RPAR"
                 THEN RetList(<< >>, LogError(q, "expected ')', after 'void' in end of function declaration"))
                 ELSE RetList(<< >>, q)
      [] p.cur.type = "RPAR" -> RetList(<< >>, p)
      [] OTHER -> RetList(<< >>, LogError(p,
                    "expected 'int', 'bool' or 'float' in function declaration or ') in end of function declaration"))

\* "[" INT_LIT "]" of an array declaration, CurTok being the '['.
ParseArrayDim(dims, p) ==
    LET q == getNextToken(p)
        r == getNextToken(q)
        Fail(at, msg) == [ok |-> FALSE, dims |-> dims, p |-> LogError(at, msg)]
    IN  IF q.cur.type # "INT_LIT"
          THEN Fail(q, "expected integer literal for array dimension size")
        ELSE IF getIntVal(q.cur) <= 0
          THEN Fail(q, "array dimension must be greater than 0")
        ELSE IF r.cur.type # "RBOX"
          THEN Fail(r, "expected ']' after array dimension")
        ELSE [ok |-> TRUE, dims |-> Append(dims, getIntVal(q.cur)), p |-> getNextToken(r)]

ParseArrayDimsCont2(dims, p) ==
    IF p.cur.type = "LBOX"
      THEN LET Dim(d) ==
                 IF d.ok /\ d.p.cur.type = "LBOX"
                   THEN [ok |-> FALSE, dims |-> d.dims,
                         p |-> LogError(d.p, "arrays with more than 3 dimensions are not supported")]
                   ELSE d
           IN  Dim(ParseArrayDim(dims, p))
      ELSE [ok |-> TRUE, dims |-> dims, p |-> p]

ParseArrayDimsCont(dims, p) ==
    IF p.cur.type = "LBOX"
      THEN LET Dim(d) == IF d.ok THEN ParseArrayDimsCont2(d.dims, d.p) ELSE d
           IN  Dim(ParseArrayDim(dims, p))
      ELSE [ok |-> TRUE, dims |-> dims, p |-> p]

-----------------------------------------------------------------------------
(* Statements, local declarations and blocks.                              *)

RECURSIVE ParseStmt(_), ParseBlock(_), ParseStmtListPrime(_, _),
          ParseLocalDeclsPrime(_, _)

\* FIRST(expr) as tested by ParseStmt, ParseReturnStmt and ParseStmtListPrime.
FirstOfExpr == {"NOT", "MINUS", "PLUS", "LPAR", "IDENT", "BOOL_LIT", "INT_LIT", "FLOAT_LIT"}

ParseExperStmt(p) ==
    IF p.cur.type = "SC"
      THEN Ret(Null, LogError(getNextToken(p),
                              "unexpected semicolon - empty statements are not allowed"))
      ELSE LET Expr(e) ==
                 IF e.node = Null THEN Ret(Null, e.p)
                 ELSE IF e.p.cur.type = "SC" THEN Ret(e.node, getNextToken(e.p))
                 ELSE Ret(Null, LogError(e.p, "expected ';' to end expression statement"))
           IN  Expr(Parse("ParseExper", p))

ParseElseStmt(p) ==
    CASE p.cur.type = "ELSE" ->
           LET q == getNextToken(p)
           IN  IF q.cur.type # "LBRA"
                 THEN Ret(Null, LogError(q, "expected { to start else block of if-then-else statment"))
                 ELSE Parse("ParseBlock", q)
      [] p.cur.type \in FirstOfExpr \cup {"SC", "LBRA", "WHILE", "IF", "RETURN", "RBRA"} ->
           Ret(Null, p)
      [] OTHER -> Ret(Null, LogError(p, "expected 'else' or one of '!', '-', '+', '(' , IDENT , INT_LIT, BOOL_LIT, FLOAT_LIT, ';', '{', 'while', 'if', 'else', 'return', '}' "))

ParseIfStmt(p) ==
    LET q == getNextToken(p)
        WithElse(c, t, e) == Ret(IfExprAST(c, t, e.node), e.p)
        WithThen(c, t) == IF t.node = Null THEN Ret(Null, t.p)
                          ELSE WithElse(c, t.node, ParseElseStmt(t.p))
        AfterCond(c, r) ==
            IF r.cur.type # "LBRA"
              THEN Ret(Null, LogError(r, "expected { to start then block of if statment"))
              ELSE WithThen(c, Parse("ParseBlock", r))
        WithCond(c) ==
            IF c.node = Null THEN Ret(Null, c.p)
            ELSE IF isAssignment(c.node)
              THEN Ret(Null, LogError(c.p, "assignment in condition is not allowed - use comparison (==) instead"))
            ELSE IF c.p.cur.type # "RPAR" THEN Ret(Null, LogError(c.p, "expected )"))
            ELSE AfterCond(c.node, getNextToken(c.p))
    IN  IF q.cur.type = "LPAR" THEN WithCond(Parse("ParseExper", getNextToken(q)))
        ELSE Ret(Null, LogError(q, "expected ("))

ParseReturnStmt(p) ==
    LET q == getNextToken(p)
        WithVal(v) ==
            IF v.node = Null THEN Ret(Null, v.p)
            ELSE IF v.p.cur.type = "SC" THEN Ret(ReturnAST(v.node), getNextToken(v.p))
            ELSE Ret(Null, LogError(v.p, "expected ';'"))
    IN  CASE q.cur.type = "SC" -> Ret(ReturnAST(Null), getNextToken(q))
          [] q.cur.type \in FirstOfExpr -> WithVal(Parse("ParseExper", q))
          [] OTHER -> Ret(Null, LogError(q, "expected ';' or expression"))

ParseWhileStmt(p) ==
    LET q == getNextToken(p)
        WithBody(c, b) == IF b.node = Null THEN Ret(Null, b.p)
                          ELSE Ret(WhileExprAST(c, b.node), b.p)
        WithCond(c) ==
            IF c.node = Null THEN Ret(Null, c.p)
            ELSE IF isAssignment(c.node)
              THEN Ret(Null, LogError(c.p, "assignment in condition is not allowed - use comparison (==) instead"))
            ELSE IF c.p.cur.type # "RPAR" THEN Ret(Null, LogError(c.p, "expected )"))
            ELSE WithBody(c.node, Parse("ParseStmt", getNextToken(c.p)))
    IN  IF q.cur.type = "LPAR" THEN WithCond(Parse("ParseExper", getNextToken(q)))
        ELSE Ret(Null, LogError(q, "expected ("))

ParseStmt(p) ==
    CASE p.cur.type \in FirstOfExpr \cup {"SC"} -> ParseExperStmt(p)
      [] p.cur.type = "LBRA" -> Parse("ParseBlock", p)
      [] p.cur.type = "IF" -> ParseIfStmt(p)
      [] p.cur.type = "WHILE" -> ParseWhileStmt(p)
      [] p.cur.type = "RETURN" -> ParseReturnStmt(p)
      [] OTHER -> Ret(Null, LogError(p, "expected BLA BLA\n"))

\* The tokens the parse functions read: CurTok, tok_buffer and the input left.
TokenState(p) == <<p.cur, p.buf, p.src>>

\* stmt_list accumulates the statements parsed so far; a statement that
\* failed to parse (no node) is left out and parsing goes on.  When ParseStmt
\* returns no node and has read no token, the next activation is in the
\* state of this one but for the error logged, and so is every later one:
\* the recursion ends only when the stack is exhausted.
ParseStmtListPrime(stmt_list, p) ==
    IF p.cur.type \in FirstOfExpr \cup {"SC", "LBRA", "WHILE", "IF", "ELSE", "RETURN"}
      THEN LET Stmt(s) ==
                   IF s.node = Null /\ TokenState(s.p) = TokenState(p)
                     THEN RetList(stmt_list, [s.p EXCEPT !.overflow = TRUE])
                     ELSE ParseStmtListPrime(IF s.node = Null THEN stmt_list
                                             ELSE Append(stmt_list, s.node), s.p)
           IN  Stmt(Parse("ParseStmt", p))
      ELSE RetList(stmt_list, p)

ParseStmtList(p) ==
    LET Stmt(s) == ParseStmtListPrime(IF s.node = Null THEN << >> ELSE <<s.node>>, s.p)
    IN  Stmt(Parse("ParseStmt", p))

ParseLocalDecl(p) ==
    IF p.cur.type \in {"INT_TOK", "FLOAT_TOK", "BOOL_TOK"}
      THEN LET Type == p.cur.lexeme
               q == getNextToken(p)
               r == getNextToken(q)
               Dims(d) ==
                   IF ~d.ok THEN Ret(Null, d.p)
                   ELSE IF d.p.cur.type # "SC"
                     THEN Ret(Null, LogError(d.p, "expected ';' after local array declaration"))
                   ELSE Ret(ArrayDeclAST(q.cur.lexeme, Type, d.dims, FALSE), getNextToken(d.p))
               First(d) == IF d.ok THEN Dims(ParseArrayDimsCont(d.dims, d.p)) ELSE Ret(Null, d.p)
           IN  IF q.cur.type # "IDENT"
                 THEN Ret(Null, LogError(q, "expected identifier in local variable declaration"))
               ELSE CASE r.cur.type = "SC" ->
                           Ret(VarDeclAST(q.cur.lexeme, Type), getNextToken(r))
                      [] r.cur.type = "LBOX" -> First(ParseArrayDim(<< >>, r))
                      [] OTHER -> Ret(Null, LogError(r, "Expected ';' or '[' after identifier in local declaration"))
      ELSE Ret(Null, p)

ParseLocalDeclsPrime(local_decls, p) ==
    CASE p.cur.type \in {"INT_TOK", "FLOAT_TOK", "BOOL_TOK"} ->
           LET Decl(d) == ParseLocalDeclsPrime(IF d.node = Null THEN local_decls
                                               ELSE Append(local_decls, d.node), d.p)
           IN  Decl(ParseLocalDecl(p))
      [] p.cur.type \in {"MINUS", "NOT", "LPAR", "IDENT", "INT_LIT", "FLOAT_LIT", "BOOL_LIT",
                         "SC", "LBRA", "IF", "WHILE", "RETURN"} -> RetList(local_decls, p)
      [] OTHER -> RetList(local_decls, LogError(p, "expected '-', '!', ('' , IDENT , STRING_LIT , INT_LIT , FLOAT_LIT, BOOL_LIT, ';', '{', 'if', 'while', 'return' after local variable declaration\n"))

ParseLocalDecls(p) ==
    CASE p.cur.type \in {"INT_TOK", "FLOAT_TOK", "BOOL_TOK"} ->
           LET Decl(d) == ParseLocalDeclsPrime(IF d.node = Null THEN << >> ELSE <<d.node>>, d.p)
           IN  Decl(ParseLocalDecl(p))
      [] p.cur.type \in {"MINUS", "NOT", "LPAR", "IDENT", "INT_LIT", "RETURN", "FLOAT_LIT",
                         "BOOL_LIT", "COMMA", "LBRA", "IF", "WHILE"} -> RetList(<< >>, p)
      [] OTHER -> RetList(<< >>, LogError(p, "expected '-', '!', '(' , IDENT , STRING_LIT , INT_LIT , FLOAT_LIT, BOOL_LIT, ';', '{', 'if', 'while', 'return'"))

ParseBlock(p) ==
    LET WithStmts(decls, sl) ==
            IF sl.p.cur.type = "RBRA"
              THEN Ret(BlockAST(decls, sl.list), getNextToken(sl.p))
              ELSE Ret(Null, LogError(sl.p, "expected '}' , close body of block"))
        WithDecls(d) == WithStmts(d.list, ParseStmtList(d.p))
    IN  WithDecls(ParseLocalDecls(getNextToken(p)))


\* The call of one of the mutually recursive parse functions, by name.
Parse(fn, p) ==
    CASE fn = "ParseOrExpr" -> ParseOrExpr(p)
      [] fn = "ParseExper"  -> ParseExper(p)
      [] fn = "ParseStmt"   -> ParseStmt(p)
      [] fn = "ParseBlock"  -> ParseBlock(p)

-----------------------------------------------------------------------------
(* Lowering state.  A compiler state s extends the parser state with       *)
(*   funcs    the functions of TheModule: name -> [ret, params, args, bbs]  *)
(*   blocks   every BasicBlock created so far: id -> [label, insts, parent] *)
(*   ip       the id of Builder's insert block (0: none)                    *)
(*   nextId   the number of instructions created so far                     *)
(*   named    NamedValues          globals  GlobalValues                    *)
(*   symtab   SymbolTypeTable      vtypes   VariableTypes                   *)
(*   fparams  CurrentFunctionParams          curfn  CurrentFunction         *)
(* A Value is a record with the fields op and ty; nullptr is "no value".    *)

nullptr == [op |-> "nullptr"]

\* std::map: m[k] = v, m.erase(k), and the entry m[k] creates when absent.
Put(m, k, v) == (k :> v) @@ m
Erase(m, k) == [x \in DOMAIN m \ {k} |-> m[x]]
Subscript(m, k) == IF k \in DOMAIN m THEN m ELSE Put(m, k, nullptr)

\* A codegen function returns the Value (nullptr on failure) and the state.
RetV(val, s) == [val |-> val, s |-> s]

\* The lexemes gettok can produce (a type string with a '*' is none of them,
\* except the lexeme "*" itself).
Lexemes == Idents \cup IntLits \cup FloatLits \cup BoolLits \cup DOMAIN Punct

MaxDims == 3     \* dimensions of a declared array, subscripts of an access

\* The dimension lists of declared arrays (1 to MaxDims positive sizes) and
\* the type strings ArrayDeclAST::codegen registers for them, e.g. int[10][5].
DimSizes == {getIntVal(TOKEN(l)) : l \in IntLits} \ {0}
ArrayShapes == UNION {[1..n -> DimSizes] : n \in 1..MaxDims}

\* The type strings the front end builds, "int", "int[10][5]", "float*[10]":
\* <<type word, whether a '*' follows, dimensions>>, and the parts of one.
TypeWords == {"int", "float", "bool", "void"}
TypeStringOf(t) == t[1] \o (IF t[2] THEN "*" ELSE "") \o DimSuffix(t[3])
TypeStringShapes ==
    TypeWords \X BOOLEAN
    \X UNION {[1..n -> {getIntVal(TOKEN(l)) : l \in IntLits}] : n \in 0..MaxDims}
TypeStrings == {TypeStringOf(t) : t \in TypeStringShapes}
TypeStringParts(typeStr) == CHOOSE t \in TypeStringShapes : TypeStringOf(t) = typeStr

\* A type string holds a '*' when it is the lexeme "*" or a parameter type
\* built by ParseParam.
getTypeFromString(typeStr) ==
    CASE typeStr = "int"   -> "i32"
      [] typeStr = "float" -> "float"
      [] typeStr = "bool"  -> "i1"
      [] typeStr = "void"  -> "void"
      [] OTHER -> IF typeStr = "*" \/ (typeStr \in TypeStrings /\ TypeStringParts(typeStr)[2])
                    THEN "ptr" ELSE "nullptr"

\* Constants: lit marks a constant written by the lowering itself (val is its
\* number, or the lexeme of a float); a folded constant carries its term.
ConstantInt(ty, v) == [op |-> "const", ty |-> ty, lit |-> TRUE, val |-> v]
ConstantFP(lex) == [op |-> "const", ty |-> "float", lit |-> TRUE, val |-> lex]

isZero_IntOnly(c) == c.lit /\ c.ty # "float" /\ c.val = 0

\* ConstantInt::isZero / ConstantFP::isZero, decided for literal constants.
isZero(c) == c.lit /\ (IF c.ty = "float" THEN c.val = "0.0" ELSE c.val = 0)

\* Builder.Insert: the new instruction goes to the end of the insert block,
\* whatever that block already holds.
Insert(s, op, ty, args, aux) ==
    LET I == [op |-> op, ty |-> ty, id |-> s.nextId, args |-> args, aux |-> aux]
    IN  RetV(I, [s EXCEPT !.blocks[s.ip].insts = Append(@, I), !.nextId = @ + 1])

\* Builder.Create<op> of a foldable operation: IRBuilder's ConstantFolder
\* yields a constant (here: the folded term) when every operand is constant.
Create(s, op, ty, args) ==
    IF \A k \in DOMAIN args : args[k].op = "const"
      THEN RetV([op |-> "const", ty |-> ty, lit |-> FALSE,
                 val |-> [fold |-> op, args |-> args]], s)
      ELSE Insert(s, op, ty, args, "")

\* BasicBlock::Create(TheContext, label) - not yet part of a function.
BasicBlock_Create(s, label) ==
    [s EXCEPT !.blocks = Append(@, [label |-> label, insts |-> << >>, parent |-> ""])]

\* TheFunction->insert(TheFunction->end(), BB)
Function_insert(s, fn, bb) ==
    [s EXCEPT !.funcs[fn].bbs = Append(@, bb), !.blocks[bb].parent = fn]

\* The id BasicBlock_Create gives its block.
NewBB(s) == Len(s.blocks) + 1

CreateEntryBlockAlloca(s, TheFunction, VarName, VarType) ==
    LET I == [op |-> "alloca", ty |-> "ptr", id |-> s.nextId, args |-> << >>,
              aux |-> [name |-> VarName, allocated |-> VarType]]
        entry == s.funcs[TheFunction].bbs[1]
    IN  RetV(I, [s EXCEPT !.blocks[entry].insts = <<I>> \o @, !.nextId = @ + 1])

\* BasicBlock::getTerminator(): the last instruction if it is a terminator.
IsTerminator(I) == I.op \in {"ret", "br", "condbr"}
getTerminator(s, bb) ==
    LET insts == s.blocks[bb].insts
    IN  IF insts # << >> /\ IsTerminator(insts[Len(insts)]) THEN insts[Len(insts)] ELSE nullptr

-----------------------------------------------------------------------------
(* Type conversion.                                                        *)

isNarrowingConversion(From, To) ==
    /\ From # To
    /\ \/ From = "float" /\ To = "i32"
       \/ From = "i32" /\ To = "i1"
       \/ From = "float" /\ To = "i1"
       \/ From = "i1" /\ To = "i32"
       \/ From = "i1" /\ To = "float"

isWideningConversion(From, To) ==
    \/ From = "i32" /\ To = "float"
    \/ From = "i1" /\ To = "i32"
    \/ From = "i1" /\ To = "float"

\* (Mini-C has no double, so the double branches never apply.)
castToType(V, DestTy, allowNarrowing, s) ==
    IF V = nullptr THEN RetV(nullptr, s)
    ELSE IF V.ty = DestTy THEN RetV(V, s)
    ELSE IF ~allowNarrowing /\ isNarrowingConversion(V.ty, DestTy)
      THEN RetV(nullptr, LogCompilerError(s, "Type", "Narrowing conversion not allowed"))
    ELSE CASE V.ty = "i32" /\ DestTy = "float" -> Create(s, "sitofp", DestTy, <<V>>)
           [] V.ty = "i1" /\ DestTy = "i32" -> Create(s, "zext", DestTy, <<V>>)
           [] V.ty = "i1" /\ DestTy = "float" ->
                LET AsInt(a) == Create(a.s, "sitofp", DestTy, <<a.val>>)
                IN  AsInt(Create(s, "zext", "i32", <<V>>))
           [] allowNarrowing /\ V.ty = "float" /\ DestTy = "i32" ->
                Create(s, "fptosi", DestTy, <<V>>)
           [] allowNarrowing /\ V.ty = "i32" /\ DestTy = "i1" ->
                Create(s, "icmp ne", "i1", <<V, ConstantInt("i32", 0)>>)
           [] allowNarrowing /\ V.ty = "float" /\ DestTy = "i1" ->
                Create(s, "fcmp one", "i1", <<V, ConstantFP("0.0")>>)
           [] OTHER -> RetV(nullptr, LogCompilerError(s, "Type", "Cannot convert between types"))

\* promoteTypes(L, R): the two operands brought to a common type.
promoteTypes(L, R, s) ==
    LET Left(l) == [L |-> l.val, R |-> R, s |-> l.s]
        Right(r) == [L |-> L, R |-> r.val, s |-> r.s]
        ViaInt(a, Side(_)) == Side(Create(a.s, "sitofp", "float", <<a.val>>))
    IN  CASE L.ty = "float" /\ R.ty = "i32" -> Right(Create(s, "sitofp", "float", <<R>>))
          [] R.ty = "float" /\ L.ty = "i32" -> Left(Create(s, "sitofp", "float", <<L>>))
          [] L.ty = "i32" /\ R.ty = "i1" -> Right(Create(s, "zext", "i32", <<R>>))
          [] R.ty = "i32" /\ L.ty = "i1" -> Left(Create(s, "zext", "i32", <<L>>))
          [] L.ty = "float" /\ R.ty = "i1" -> ViaInt(Create(s, "zext", "i32", <<R>>), Right)
          [] R.ty = "float" /\ L.ty = "i1" -> ViaInt(Create(s, "zext", "i32", <<L>>), Left)
          [] OTHER -> [L |-> L, R |-> R, s |-> s]

-----------------------------------------------------------------------------
(* Lowering of expressions.                                                *)

RECURSIVE codegen(_, _), CallArgs(_, _, _, _, _)

getTypeInfo(s, varName) ==
    IF varName \in DOMAIN s.symtab THEN s.symtab[varName] ELSE nullptr

checkVariableInScope(varName, s) ==
    IF /\ varName \in DOMAIN s.named \/ varName \in DOMAIN s.globals
       /\ getTypeInfo(s, varName) # nullptr
      THEN [info |-> getTypeInfo(s, varName), s |-> s]
      ELSE [info |-> nullptr,
            s |-> LogCompilerError(s, "Scope",
                        "Undefined variable '" \o varName \o "' in global scope")]

VariableASTnode_codegen(n, s) ==
    LET Global(expectedType, s2) ==
            IF s2.globals[n.name] = nullptr THEN RetV(nullptr, s2)
            ELSE IF s2.globals[n.name].valueType # expectedType
              THEN RetV(nullptr, LogCompilerError(s2, "Type",
                          "Type mismatch for global variable '" \o n.name \o "'"))
            ELSE Insert(s2, "load", s2.globals[n.name].valueType, <<s2.globals[n.name]>>, n.name)
        Local(expectedType, s1) ==
            IF s1.named[n.name] = nullptr
              THEN Global(expectedType, [s1 EXCEPT !.globals = Subscript(@, n.name)])
            ELSE IF s1.named[n.name].aux.allocated # expectedType
              THEN RetV(nullptr, LogCompilerError(s1, "Type",
                          "Type mismatch for variable '" \o n.name \o "'"))
            ELSE Insert(s1, "load", s1.named[n.name].aux.allocated, <<s1.named[n.name]>>, n.name)
        WithInfo(c) ==
            IF c.info = nullptr THEN RetV(nullptr, c.s)
            ELSE Local(getTypeFromString(c.info.typeName),
                       [c.s EXCEPT !.named = Subscript(@, n.name)])
    IN  WithInfo(checkVariableInScope(n.name, s))

registerVariable(s, varName, typeName, isGlobal) ==
    [s EXCEPT !.symtab = Put(@, varName, [typeName |-> typeName, isGlobal |-> isGlobal])]

\* The instruction BinaryExprAST::codegen creates for an operator on integer
\* operands; on float operands; and the type of the result.
BinaryInstr ==
    [op \in {"+", "-", "*", "/", "%", "<", "<=", ">", ">=", "==", "!="} |->
       CASE op = "+"  -> [int |-> "add",  float |-> "fadd", cmp |-> FALSE]
         [] op = "-"  -> [int |-> "sub",  float |-> "fsub", cmp |-> FALSE]
         [] op = "*"  -> [int |-> "mul",  float |-> "fmul", cmp |-> FALSE]
         [] op = "/"  -> [int |-> "sdiv", float |-> "fdiv", cmp |-> FALSE]
         [] op = "%"  -> [int |-> "srem", float |-> "",     cmp |-> FALSE]
         [] op = "<"  -> [int |-> "icmp slt", float |-> "fcmp olt", cmp |-> TRUE]
         [] op = "<=" -> [int |-> "icmp sle", float |-> "fcmp ole", cmp |-> TRUE]
         [] op = ">"  -> [int |-> "icmp sgt", float |-> "fcmp ogt", cmp |-> TRUE]
         [] op = ">=" -> [int |-> "icmp sge", float |-> "fcmp oge", cmp |-> TRUE]
         [] op = "==" -> [int |-> "icmp eq",  float |-> "fcmp oeq", cmp |-> TRUE]
         [] op = "!=" -> [int |-> "icmp ne",  float |-> "fcmp one", cmp |-> TRUE]]

\* BinaryExprAST::codegen from promoteTypes on: L and R are the promoted operands.
BinaryExprAST_emit(Op, L, R, s) ==
    LET OpType == L.ty
        Logical(name) ==
            LET Both(l, r) == IF l.val = nullptr \/ r.val = nullptr THEN RetV(nullptr, r.s)
                              ELSE Create(r.s, name, "i1", <<l.val, r.val>>)
                Second(l) == Both(l, castToType(R, "i1", FALSE, l.s))
            IN  Second(castToType(L, "i1", FALSE, s))
    IN  CASE Op = "&&" -> Logical("and")
          [] Op = "||" -> Logical("or")
          [] Op \in {"/", "%"} /\ R.op = "const" /\ R.ty # "float" /\ isZero(R) ->
               RetV(nullptr, LogCompilerError(s, "Semantic",
                      IF Op = "/" THEN "Division by zero detected" ELSE "Modulo by zero detected"))
          [] Op = "/" /\ R.op = "const" /\ R.ty = "float" /\ isZero(R) ->
               RetV(nullptr, LogCompilerError(s, "Semantic", "Division by zero detected"))
          [] OTHER ->
               IF OpType = "float" /\ Op # "%"
                 THEN Create(s, BinaryInstr[Op].float,
                             IF BinaryInstr[Op].cmp THEN "i1" ELSE OpType, <<L, R>>)
               ELSE IF OpType \in {"i32", "i1"}
                 THEN Create(s, BinaryInstr[Op].int,
                             IF BinaryInstr[Op].cmp THEN "i1" ELSE OpType, <<L, R>>)
               ELSE RetV(nullptr, LogCompilerError(s, "Type",
                           IF Op = "%" THEN "Modulo operator '%' requires integer operands"
                           ELSE "Invalid operand types for operator '" \o Op \o "'"))

\* BinaryExprAST::codegen without the test for an int/float mix.
BinaryExprAST_codegen_Mixing(n, s) ==
    LET Arith == n.op \in {"+", "-", "*", "/", "%"}
        Promoted(pr) == BinaryExprAST_emit(n.op, pr.L, pr.R, pr.s)
        Typed(L, R, s1) ==
            IF Arith /\ (L.ty = "i1" \/ R.ty = "i1")
              THEN RetV(nullptr, LogCompilerError(s1, "Type", "Arithmetic operator '" \o n.op
                          \o "' requires numeric operands (int or float), not bool"))
            ELSE Promoted(promoteTypes(L, R, s1))
        WithR(l, r) == IF l.val = nullptr \/ r.val = nullptr THEN RetV(nullptr, r.s)
                       ELSE Typed(l.val, r.val, r.s)
        WithL(l) == WithR(l, codegen(n.rhs, l.s))
    IN  WithL(codegen(n.lhs, s))

BinaryExprAST_codegen(n, s) ==
    LET Arith == n.op \in {"+", "-", "*", "/", "%"}
        Promoted(pr) == BinaryExprAST_emit(n.op, pr.L, pr.R, pr.s)
        Typed(L, R, s1) ==
            IF Arith /\ (L.ty = "i1" \/ R.ty = "i1")
              THEN RetV(nullptr, LogCompilerError(s1, "Type", "Arithmetic operator '" \o n.op
                          \o "' requires numeric operands (int or float), not bool"))
            ELSE IF Arith /\ (\/ L.ty = "float" /\ R.ty = "i32"
                              \/ L.ty = "i32" /\ R.ty = "float")
              THEN RetV(nullptr, LogCompilerError(s1, "Type", "Binary operator '" \o n.op
                          \o "' requires operands of the same type"))
            ELSE Promoted(promoteTypes(L, R, s1))
        WithR(l, r) == IF l.val = nullptr \/ r.val = nullptr THEN RetV(nullptr, r.s)
                       ELSE Typed(l.val, r.val, r.s)
        WithL(l) == WithR(l, codegen(n.rhs, l.s))
    IN  WithL(codegen(n.lhs, s))

UnaryExprAST_codegen(n, s) ==
    LET Not(c) == IF c.val = nullptr
                    THEN RetV(nullptr, LogCompilerError(c.s, "Semantic",
                                "Logical NOT operator '!' requires boolean operand"))
                    ELSE Create(c.s, "not", "i1", <<c.val>>)
        WithOperand(o) ==
            IF o.val = nullptr THEN RetV(nullptr, o.s)
            ELSE IF n.op = "-"
              THEN CASE o.val.ty = "float" -> Create(o.s, "fneg", "float", <<o.val>>)
                     [] o.val.ty = "i32" -> Create(o.s, "neg", "i32", <<o.val>>)
                     [] OTHER -> RetV(nullptr, LogCompilerError(o.s, "Type",
                                        "Unary operator '-' requires numeric operand"))
            ELSE Not(castToType(o.val, "i1", FALSE, o.s))
    IN  WithOperand(codegen(n.operand, s))

AssignmentExprAST_codegen(n, s) ==
    LET Stored(val, st) == RetV(val, st.s)
        Cast(c, Var, what) ==
            IF c.val = nullptr
              THEN RetV(nullptr, LogCompilerError(c.s, "Type",
                          "Type mismatch in assignment to " \o what \o " '" \o n.name \o "'"))
              ELSE Stored(c.val, Insert(c.s, "store", "void", <<c.val, Var>>, ""))
        Store(Val, Var, VarType, what, s1) ==
            IF Val.ty # VarType THEN Cast(castToType(Val, VarType, FALSE, s1), Var, what)
            ELSE Stored(Val, Insert(s1, "store", "void", <<Val, Var>>, ""))
        Global(Val, s2) ==
            IF s2.globals[n.name] = nullptr
              THEN RetV(nullptr, LogCompilerError(s2, "Scope",
                          "Undefined variable '" \o n.name \o "'"))
              ELSE Store(Val, s2.globals[n.name], s2.globals[n.name].valueType, "global", s2)
        Local(Val, s1) ==
            IF s1.named[n.name] = nullptr
              THEN Global(Val, [s1 EXCEPT !.globals = Subscript(@, n.name)])
              ELSE Store(Val, s1.named[n.name], s1.named[n.name].aux.allocated, "local", s1)
        WithRHS(r) == IF r.val = nullptr THEN RetV(nullptr, r.s)
                      ELSE Local(r.val, [r.s EXCEPT !.named = Subscript(@, n.name)])
    IN  WithRHS(codegen(n.rhs, s))

\* The for (auto &Arg : Args) loop of CallExprAST::codegen and the call.
CallArgs(n, CalleeF, Idx, ArgsV, s) ==
    IF Idx > Len(n.args)
      THEN Insert(s, "call", CalleeF.ret, ArgsV, n.callee)
      ELSE LET Cast(c) == IF c.val = nullptr THEN RetV(nullptr, c.s)
                          ELSE CallArgs(n, CalleeF, Idx + 1, Append(ArgsV, c.val), c.s)
               WithArg(a) ==
                   IF a.val = nullptr THEN RetV(nullptr, a.s)
                   ELSE IF a.val.ty = CalleeF.params[Idx] THEN Cast(a)
                   ELSE IF isNarrowingConversion(a.val.ty, CalleeF.params[Idx])
                     THEN RetV(nullptr, LogCompilerError(a.s, "Type",
                                 "Narrowing conversion in argument of function '" \o n.callee \o "'"))
                   ELSE Cast(castToType(a.val, CalleeF.params[Idx], FALSE, a.s))
           IN  WithArg(codegen(n.args[Idx], s))

CallExprAST_codegen(n, s) ==
    IF n.callee \notin DOMAIN s.funcs
      THEN RetV(nullptr, LogCompilerError(s, "Scope",
                  "Call to undefined function '" \o n.callee \o "'"))
    ELSE IF Len(s.funcs[n.callee].params) # Len(n.args)
      THEN RetV(nullptr, LogCompilerError(s, "Type",
                  "Function '" \o n.callee \o "' called with a wrong number of arguments"))
    ELSE CallArgs(n, s.funcs[n.callee], 1, << >>, s)

-----------------------------------------------------------------------------
(* Lowering of statements, blocks, functions and globals.                  *)

RECURSIVE BlockDecls(_, _, _, _, _), BlockStmts(_, _, _, _)

\* Builder.GetInsertBlock()->getParent()
GetInsertFunction(s) == s.blocks[s.ip].parent

IfExprAST_codegen(n, s) ==
    LET Merge(s6, TheFunction, MergeBB) ==
            RetV(ConstantInt("i32", 0),
                 [Function_insert(s6, TheFunction, MergeBB) EXCEPT !.ip = MergeBB])
        WithElse(e, TheFunction, MergeBB) ==
            IF e.val = nullptr THEN RetV(nullptr, e.s)
            ELSE Merge(Insert(e.s, "br", "void", << >>, <<MergeBB>>).s, TheFunction, MergeBB)
        Else(s5, TheFunction, ElseBB, MergeBB) ==
            IF n.Else # Null
              THEN WithElse(codegen(n.Else, [Function_insert(s5, TheFunction, ElseBB)
                                                EXCEPT !.ip = ElseBB]),
                            TheFunction, MergeBB)
              ELSE Merge(s5, TheFunction, MergeBB)
        WithThen(t, TheFunction, ElseBB, MergeBB) ==
            IF t.val = nullptr THEN RetV(nullptr, t.s)
            ELSE Else(Insert(t.s, "br", "void", << >>, <<MergeBB>>).s,
                      TheFunction, ElseBB, MergeBB)
        Then(s3, TheFunction, ThenBB, ElseBB, MergeBB) ==
            WithThen(codegen(n.Then, [s3 EXCEPT !.ip = ThenBB]), TheFunction, ElseBB, MergeBB)
        Blocks(CondV, s1, TheFunction, ThenBB) ==
            Then(Insert(BasicBlock_Create(BasicBlock_Create(s1, "else"), "ifcont"),
                        "condbr", "void", <<CondV>>,
                        <<ThenBB, IF n.Else # Null THEN ThenBB + 1 ELSE ThenBB + 2>>).s,
                 TheFunction, ThenBB, ThenBB + 1, ThenBB + 2)
        Cast(c) ==
            Blocks(c.val,
                   Function_insert(BasicBlock_Create(c.s, "then"), GetInsertFunction(c.s), NewBB(c.s)),
                   GetInsertFunction(c.s), NewBB(c.s))
        WithCond(c) == IF c.val = nullptr THEN RetV(nullptr, c.s)
                       ELSE Cast(castToType(c.val, "i1", TRUE, c.s))
    IN  WithCond(codegen(n.Cond, s))

WhileExprAST_codegen(n, s) ==
    LET After(s6, TheFunction, AfterBB) ==
            RetV(ConstantInt("i32", 0),
                 [Function_insert(s6, TheFunction, AfterBB) EXCEPT !.ip = AfterBB])
        WithBody(b, TheFunction, LoopBB) ==
            IF b.val = nullptr THEN RetV(nullptr, b.s)
            ELSE After(Insert(b.s, "br", "void", << >>, <<LoopBB>>).s, TheFunction, LoopBB + 2)
        Body(s4, TheFunction, LoopBB) ==
            WithBody(codegen(n.Body, [Function_insert(s4, TheFunction, LoopBB + 1)
                                         EXCEPT !.ip = LoopBB + 1]),
                     TheFunction, LoopBB)
        Cast(c, TheFunction, LoopBB) ==
            Body(Insert(c.s, "condbr", "void", <<c.val>>, <<LoopBB + 1, LoopBB + 2>>).s,
                 TheFunction, LoopBB)
        WithCond(c, TheFunction, LoopBB) ==
            IF c.val = nullptr THEN RetV(nullptr, c.s)
            ELSE Cast(castToType(c.val, "i1", TRUE, c.s), TheFunction, LoopBB)
        Header(s2, TheFunction, LoopBB) ==
            WithCond(codegen(n.Cond, [Insert(s2, "br", "void", << >>, <<LoopBB>>).s
                                         EXCEPT !.ip = LoopBB]),
                     TheFunction, LoopBB)
    IN  Header(BasicBlock_Create(BasicBlock_Create(
                   Function_insert(BasicBlock_Create(s, "loop"), GetInsertFunction(s), NewBB(s)),
                   "body"), "afterloop"),
               GetInsertFunction(s), NewBB(s))

ReturnAST_codegen(n, s) ==
    LET FuncRetType == s.funcs[GetInsertFunction(s)].ret
        Cast(c) ==
            IF c.val = nullptr
              THEN RetV(nullptr, LogCompilerError(c.s, "Type", "Cannot convert return value type"))
              ELSE Insert(c.s, "ret", "void", <<c.val>>, "")
        WithVal(r) ==
            IF r.val = nullptr THEN RetV(nullptr, r.s)
            ELSE IF r.val.ty = FuncRetType THEN Insert(r.s, "ret", "void", <<r.val>>, "")
            ELSE IF isNarrowingConversion(r.val.ty, FuncRetType)
              THEN RetV(nullptr, LogCompilerError(r.s, "Type",
                          "Return type mismatch in function '" \o GetInsertFunction(s)
                          \o "' - narrowing conversion not allowed"))
            ELSE Cast(castToType(r.val, FuncRetType, FALSE, r.s))
    IN  IF n.Val = Null
          THEN IF FuncRetType # "void"
                 THEN RetV(nullptr, LogCompilerError(s, "Semantic",
                             "Non-void function '" \o GetInsertFunction(s) \o "' must return a value"))
                 ELSE Insert(s, "ret", "void", << >>, "")
        ELSE IF FuncRetType = "void"
          THEN RetV(nullptr, LogCompilerError(s, "Semantic",
                      "Void function '" \o GetInsertFunction(s) \o "' cannot return a value"))
        ELSE WithVal(codegen(n.Val, s))

\* The store BlockAST::codegen initialises a fresh local with.
ZeroInit(VarType) == IF VarType = "float" THEN ConstantFP("0.0") ELSE ConstantInt(VarType, 0)

\* The declaration loop of BlockAST::codegen, from LocalDecls[i] on.  The
\* result says whether the loop completed and carries OldBindings.
BlockDecls(n, i, OldBindings, CurrentBlockVars, s) ==
    IF i > Len(n.LocalDecls) THEN [ok |-> TRUE, OldBindings |-> OldBindings, s |-> s]
    ELSE
      LET VarName == n.LocalDecls[i].name
          TypeStr == n.LocalDecls[i].type
          Fail(s1) == [ok |-> FALSE, OldBindings |-> OldBindings, s |-> s1]
          Rest(Old, s4) == BlockDecls(n, i + 1, Old, CurrentBlockVars \cup {VarName}, s4)
          Bound(Old, Alloca, s3) ==
              Rest(Old, registerVariable([s3 EXCEPT !.named = Put(@, VarName, Alloca)],
                                         VarName, TypeStr, FALSE))
          Allocated(Old, a) ==
              Bound(Old, a.val,
                    IF a.val.aux.allocated \in {"i32", "float", "i1"}
                      THEN Insert(a.s, "store", "void",
                                  <<ZeroInit(a.val.aux.allocated), a.val>>, "").s
                      ELSE a.s)
          ArrayDone(Old, a) == IF a.val = nullptr THEN Fail(a.s) ELSE Rest(Old, a.s)
          Declare(Old, s2) ==
              IF n.LocalDecls[i].kind = "ArrayDecl"
                THEN ArrayDone(Old, codegen(n.LocalDecls[i], s2))
              ELSE IF VarName \in DOMAIN s2.funcs
                THEN Fail(LogCompilerError(s2, "Scope",
                            "Variable '" \o VarName \o "' conflicts with function name"))
              ELSE IF getTypeFromString(TypeStr) = "nullptr"
                THEN Fail(LogCompilerError(s2, "Type", "Invalid type for variable '" \o VarName \o "'"))
              ELSE Allocated(Old, CreateEntryBlockAlloca(s2, GetInsertFunction(s), VarName,
                                                         getTypeFromString(TypeStr)))
          Shadow(s1) ==
              Declare(IF s1.named[VarName] # nullptr
                        THEN Put(OldBindings, VarName, s1.named[VarName])
                        ELSE OldBindings,
                      s1)
      IN  IF VarName \in CurrentBlockVars
            THEN Fail(LogCompilerError(s, "Scope",
                        "Redeclaration of variable '" \o VarName \o "' in same scope"))
          ELSE IF VarName \in s.fparams
            THEN Fail(LogCompilerError(s, "Scope",
                        "Local variable '" \o VarName \o "' shadows function parameter"))
          ELSE Shadow([s EXCEPT !.named = Subscript(@, VarName)])

\* The statement loop of BlockAST::codegen, from Stmts[i] on.  The result
\* says whether every statement was lowered and carries LastVal.
BlockStmts(n, i, LastVal, s) ==
    IF i > Len(n.Stmts) THEN [ok |-> TRUE, val |-> LastVal, s |-> s]
    ELSE IF n.Stmts[i] = Null THEN BlockStmts(n, i + 1, LastVal, s)
    ELSE LET WithStmt(v) == IF v.val = nullptr THEN [ok |-> FALSE, val |-> nullptr, s |-> v.s]
                            ELSE BlockStmts(n, i + 1, v.val, v.s)
         IN  WithStmt(codegen(n.Stmts[i], s))

\* The end of BlockAST::codegen: old bindings restored, the block's own
\* names removed from NamedValues and VariableTypes.
BlockExit(n, OldBindings, s) ==
    LET Declared == {n.LocalDecls[i].name : i \in DOMAIN n.LocalDecls}
        Gone == Declared \ DOMAIN OldBindings
        restored == [k \in DOMAIN s.named \cup DOMAIN OldBindings |->
                       IF k \in DOMAIN OldBindings THEN OldBindings[k] ELSE s.named[k]]
    IN  [s EXCEPT !.named = [k \in DOMAIN restored \ Gone |-> restored[k]],
                  !.vtypes = [k \in DOMAIN s.vtypes \ Gone |-> s.vtypes[k]]]

BlockAST_codegen(n, s) ==
    LET Done(Old, v) ==
            IF ~v.ok THEN RetV(nullptr, v.s)
            ELSE RetV(IF v.val = nullptr THEN ConstantInt("i32", 0) ELSE v.val,
                      BlockExit(n, Old, v.s))
        WithDecls(d) == IF ~d.ok THEN RetV(nullptr, d.s)
                        ELSE Done(d.OldBindings, BlockStmts(n, 1, nullptr, d.s))
    IN  WithDecls(BlockDecls(n, 1, << >>, {}, s))

\* Function::Create with the prototype's types and parameter names.
Function_Create(s, Proto) ==
    [s EXCEPT !.funcs = Put(@, Proto.name,
        [ret    |-> getTypeFromString(Proto.type),
         params |-> [i \in DOMAIN Proto.params |-> getTypeFromString(Proto.params[i].type)],
         args   |-> [i \in DOMAIN Proto.params |-> Proto.params[i].name],
         bbs    |-> << >>])]

\* A Function* / an Argument as a value.
FunctionValue(name) == [op |-> "function", ty |-> "ptr", name |-> name]
Argument(s, fn, Idx) ==
    [op |-> "arg", ty |-> s.funcs[fn].params[Idx], name |-> s.funcs[fn].args[Idx]]

RECURSIVE FunctionArgs(_, _, _, _)

\* The "create allocas for parameters" loop of FunctionDeclAST::codegen.
FunctionArgs(Proto, fn, Idx, s) ==
    IF Idx > Len(s.funcs[fn].args) THEN s
    ELSE LET ArgName == s.funcs[fn].args[Idx]
             TypeStr == Proto.params[Idx].type
             Stored(Alloca, s2) ==
                 FunctionArgs(Proto, fn, Idx + 1,
                     registerVariable([s2 EXCEPT !.named = Put(@, ArgName, Alloca),
                                                 !.vtypes = Put(@, ArgName, TypeStr)],
                                      ArgName, TypeStr, FALSE))
             Allocated(a) ==
                 Stored(a.val, Insert(a.s, "store", "void", <<Argument(s, fn, Idx), a.val>>, "").s)
         IN  Allocated(CreateEntryBlockAlloca(s, fn, ArgName, s.funcs[fn].params[Idx]))

\* The fall-through return FunctionDeclAST::codegen adds to a block without
\* terminator.
DefaultReturn(s, RetType) ==
    IF getTerminator(s, s.ip) # nullptr THEN s
    ELSE CASE RetType = "void" -> Insert(s, "ret", "void", << >>, "").s
           [] RetType \in {"i32", "i1"} ->
                Insert(s, "ret", "void", <<ConstantInt(RetType, 0)>>, "").s
           [] RetType = "float" -> Insert(s, "ret", "void", <<ConstantFP("0.0")>>, "").s
           [] OTHER -> s

\* FunctionDeclAST::codegen keeping the parameter names of earlier functions.
FunctionDeclAST_codegen_KeepingParams(n, s) ==
    LET Proto == n.Proto
        fn == Proto.name
        OldFunction == s.curfn
        names == [i \in DOMAIN Proto.params |-> Proto.params[i].name]
        Dup == {i \in DOMAIN names : \E j \in 1..(i - 1) : names[j] = names[i]}
        firstDup == CHOOSE i \in Dup : \A j \in Dup : i <= j
        Body(b) ==
            IF b.val # nullptr
              THEN RetV(FunctionValue(fn),
                        [DefaultReturn(b.s, b.s.funcs[fn].ret) EXCEPT
                           !.symtab = [k \in DOMAIN @ \ {names[i] : i \in DOMAIN names} |-> @[k]],
                           !.curfn = OldFunction])
              ELSE RetV(nullptr, [b.s EXCEPT !.funcs = Erase(@, fn), !.curfn = OldFunction])
        Params(s2) ==
            IF Dup # {}
              THEN RetV(nullptr,
                        LogCompilerError(
                          [s2 EXCEPT !.fparams = {names[i] : i \in 1..(firstDup - 1)}],
                          "Scope", "Duplicate parameter name '" \o names[firstDup]
                                   \o "' in function '" \o fn \o "'"))
              ELSE Body(codegen(n.Block,
                          FunctionArgs(Proto, fn, 1,
                            [s2 EXCEPT !.fparams = s.fparams \cup {names[i] : i \in DOMAIN names}])))
        Entry(s1) ==
            Params([Function_insert(BasicBlock_Create(s1, "entry"), fn, NewBB(s1)) EXCEPT
                      !.ip = NewBB(s1), !.curfn = fn, !.named = << >>, !.fparams = {}])
    IN  Entry(IF fn \in DOMAIN s.funcs THEN s ELSE Function_Create(s, Proto))

FunctionDeclAST_codegen(n, s) ==
    LET Proto == n.Proto
        fn == Proto.name
        OldFunction == s.curfn
        names == [i \in DOMAIN Proto.params |-> Proto.params[i].name]
        Dup == {i \in DOMAIN names : \E j \in 1..(i - 1) : names[j] = names[i]}
        firstDup == CHOOSE i \in Dup : \A j \in Dup : i <= j
        Body(b) ==
            IF b.val # nullptr
              THEN RetV(FunctionValue(fn),
                        [DefaultReturn(b.s, b.s.funcs[fn].ret) EXCEPT
                           !.symtab = [k \in DOMAIN @ \ {names[i] : i \in DOMAIN names} |-> @[k]],
                           !.curfn = OldFunction])
              ELSE RetV(nullptr, [b.s EXCEPT !.funcs = Erase(@, fn), !.curfn = OldFunction])
        Params(s2) ==
            IF Dup # {}
              THEN RetV(nullptr,
                        LogCompilerError(
                          [s2 EXCEPT !.fparams = {names[i] : i \in 1..(firstDup - 1)}],
                          "Scope", "Duplicate parameter name '" \o names[firstDup]
                                   \o "' in function '" \o fn \o "'"))
              ELSE Body(codegen(n.Block,
                          FunctionArgs(Proto, fn, 1,
                            [s2 EXCEPT !.fparams = {names[i] : i \in DOMAIN names}])))
        Entry(s1) ==
            Params([Function_insert(BasicBlock_Create(s1, "entry"), fn, NewBB(s1)) EXCEPT
                      !.ip = NewBB(s1), !.curfn = fn, !.named = << >>, !.fparams = {}])
    IN  Entry(IF fn \in DOMAIN s.funcs THEN s ELSE Function_Create(s, Proto))

FunctionPrototypeAST_codegen(n, s) ==
    IF n.name \in DOMAIN s.funcs THEN RetV(FunctionValue(n.name), s)
    ELSE IF getTypeFromString(n.type) = "nullptr"
      THEN RetV(nullptr, LogCompilerError(s, "Semantic", "Invalid return type in function prototype"))
    ELSE IF \E i \in DOMAIN n.params : getTypeFromString(n.params[i].type) = "nullptr"
      THEN RetV(nullptr, LogCompilerError(s, "Semantic", "Invalid parameter type in function prototype"))
    ELSE RetV(FunctionValue(n.name), Function_Create(s, n))

GlobalVariable(name, VarType) ==
    [op |-> "global", ty |-> "ptr", name |-> name, valueType |-> VarType]

GlobVarDeclAST_codegen(n, s) ==
    LET VarType == getTypeFromString(n.type)
    IN  IF n.name \in DOMAIN s.globals
          THEN RetV(nullptr, LogCompilerError(s, "Scope",
                      "Redeclaration of global variable '" \o n.name \o "'"))
        ELSE IF n.name \in DOMAIN s.funcs
          THEN RetV(nullptr, LogCompilerError(s, "Scope",
                      "Global variable '" \o n.name \o "' conflicts with function name"))
        ELSE IF VarType = "nullptr"
          THEN RetV(nullptr, LogCompilerError(s, "Semantic",
                      "Invalid type for global variable '" \o n.name \o "'"))
        ELSE IF VarType \notin {"i32", "float", "i1"}
          THEN RetV(nullptr, LogCompilerError(s, "Semantic",
                      "Unsupported type for global variable '" \o n.name \o "'"))
        ELSE RetV(GlobalVariable(n.name, VarType),
                  registerVariable([s EXCEPT !.globals = Put(@, n.name, GlobalVariable(n.name, VarType))],
                                   n.name, n.type, TRUE))

RECURSIVE ArrayType(_, _), TypeString(_, _)

\* llvm::ArrayType::get nested over the dimensions, outermost first.
ArrayType(BaseType, Dimensions) ==
    IF Dimensions = << >> THEN BaseType
    ELSE "[" \o ToString(Head(Dimensions)) \o " x " \o ArrayType(BaseType, Tail(Dimensions)) \o "]"

\* The type string ArrayDeclAST::codegen registers, e.g. int[10][5].
TypeString(Type, Dimensions) ==
    IF Dimensions = << >> THEN Type
    ELSE TypeString(Type \o "[" \o ToString(Head(Dimensions)) \o "]", Tail(Dimensions))

ArrayDeclAST_codegen(n, s) ==
    LET FullArrayType == ArrayType(getTypeFromString(n.type), n.dims)
        TypeStr == TypeString(n.type, n.dims)
        Local(a) == RetV(a.val, registerVariable([a.s EXCEPT !.named = Put(@, n.name, a.val)],
                                                 n.name, TypeStr, FALSE))
    IN  IF getTypeFromString(n.type) = "nullptr"
          THEN RetV(nullptr, LogCompilerError(s, "Semantic", "Invalid type for array '" \o n.name \o "'"))
        ELSE IF n.name \in DOMAIN s.funcs
          THEN RetV(nullptr, LogCompilerError(s, "Scope",
                      "Array '" \o n.name \o "' conflicts with function name"))
        ELSE IF n.isGlobal
          THEN RetV(GlobalVariable(n.name, FullArrayType),
                    registerVariable([s EXCEPT !.globals = Put(@, n.name,
                                                   GlobalVariable(n.name, FullArrayType))],
                                     n.name, TypeStr, TRUE))
        ELSE IF s.curfn = ""
          THEN RetV(nullptr, LogCompilerError(s, "Semantic", "Array declaration outside of function"))
        ELSE Local(CreateEntryBlockAlloca(s, s.curfn, n.name, FullArrayType))

-----------------------------------------------------------------------------
(* Array element access.                                                   *)

\* ArrayType::getElementType, and a type being an array type.
ArrayTypes == {ArrayType(b, ds) : b \in {"i32", "float", "i1"}, ds \in ArrayShapes}
isArrayTy(Ty) == Ty \in ArrayTypes
getElementType(Ty) ==
    LET Of(Shape) == ArrayType(Shape[1], Tail(Shape[2]))
    IN  Of(CHOOSE bd \in {"i32", "float", "i1"} \X ArrayShapes : Ty = ArrayType(bd[1], bd[2]))

\* The number of array levels of a type.
RECURSIVE ArrayDepth(_)
ArrayDepth(Ty) == IF isArrayTy(Ty) THEN 1 + ArrayDepth(getElementType(Ty)) ELSE 0

\* countArrayDimensions: the '[' of the type string, plus one for a '*'.
countArrayDimensions(typeStr) ==
    LET Count(t) == Len(t[3]) + (IF t[2] THEN 1 ELSE 0)
    IN  IF typeStr \in TypeStrings THEN Count(TypeStringParts(typeStr))
        ELSE IF typeStr = "*" THEN 1 ELSE 0

\* getElementTypeFromParamType: float, int and bool are looked for in this
\* order; int is the default.
getElementTypeFromParamType(paramTypeStr) ==
    LET Word(t) == IF t[1] = "void" THEN "i32" ELSE getTypeFromString(t[1])
    IN  IF paramTypeStr \in TypeStrings THEN Word(TypeStringParts(paramTypeStr)) ELSE "i32"

\* extractInnerDimensionFromParamType: the number between the first '[' and
\* the first ']', -1 without them.
extractInnerDimensionFromParamType(paramTypeStr) ==
    LET Inner(t) == IF t[3] # << >> THEN Head(t[3]) ELSE -1
    IN  IF paramTypeStr \in TypeStrings THEN Inner(TypeStringParts(paramTypeStr)) ELSE -1

\* getArrayTypeForParam: [innerDim x element] for "float*[10]", else the element.
getArrayTypeForParam(paramTypeStr) ==
    LET Of(elementType, innerDim) ==
            IF innerDim > 0 THEN ArrayType(elementType, <<innerDim>>) ELSE elementType
    IN  Of(getElementTypeFromParamType(paramTypeStr),
           extractInnerDimensionFromParamType(paramTypeStr))

\* Builder.CreateGEP.  Indices that step into a type that is no array make
\* GetElementPtrInst::getIndexedType yield null: an LLVM built with
\* assertions aborts, any other build goes on with the instruction.  A
\* global indexed by constants only is folded to a constant expression.
CreateGEP(s, GEPType, Ptr, IdxList) ==
    LET Checked(s1) ==
            IF Ptr.op \in {"global", "const"} /\ \A k \in DOMAIN IdxList : IdxList[k].op = "const"
              THEN RetV([op |-> "const", ty |-> "ptr", lit |-> FALSE,
                         val |-> [fold |-> "getelementptr", args |-> <<Ptr>> \o IdxList,
                                  aux |-> GEPType]], s1)
              ELSE Insert(s1, "getelementptr", "ptr", <<Ptr>> \o IdxList, GEPType)
    IN  Checked(IF Len(IdxList) - 1 > ArrayDepth(GEPType) /\ s.asserts
                  THEN [s EXCEPT !.aborted = TRUE] ELSE s)

RECURSIVE ChainedGEPs(_, _, _, _, _, _), Unwrapped(_, _)

\* The chained GEPs of a multi-dimensional array parameter.
ChainedGEPs(s, CurrentPtr, IndexValues, i, ArrayTypeForGEP, ElementType) ==
    IF i > Len(IndexValues) THEN RetV(CurrentPtr, s)
    ELSE LET Rest(g) == ChainedGEPs(g.s, g.val, IndexValues, i + 1, ArrayTypeForGEP, ElementType)
         IN  Rest(CreateGEP(s, IF i = 1 THEN ArrayTypeForGEP ELSE ElementType,
                            CurrentPtr, <<IndexValues[i]>>))

\* ElementType after the loop over IndexValues[1..]: one array level less
\* per index, as long as the type is an array.
Unwrapped(Ty, k) ==
    IF k = 0 THEN Ty
    ELSE Unwrapped(IF isArrayTy(Ty) THEN getElementType(Ty) ELSE Ty, k - 1)

\* "Determine element type and create GEP": the address of the element and
\* its type.
ElementAddress(name, ArrayPtr, BaseType, isPointerParam, IndexValues, s) ==
    LET Result(ElementType, g) == [gep |-> g.val, ElementType |-> ElementType, s |-> g.s]
        Param(ElementType) ==
            IF Len(IndexValues) > 1
              THEN Result(ElementType,
                          ChainedGEPs(s, ArrayPtr, IndexValues, 1,
                                      getArrayTypeForParam(s.vtypes[name]), ElementType))
              ELSE Result(ElementType, CreateGEP(s, ElementType, ArrayPtr, IndexValues))
    IN  IF isPointerParam THEN Param(getElementTypeFromParamType(s.vtypes[name]))
        ELSE Result(Unwrapped(BaseType, Len(IndexValues) - 1),
                    CreateGEP(s, BaseType, ArrayPtr, IndexValues))

RECURSIVE ArrayAccessIndices(_, _, _, _), ArrayAssignmentIndices(_, _, _, _)

\* The subscript loop of ArrayAccessAST::codegen, from Indices[i] on.
ArrayAccessIndices(n, i, IndexValues, s) ==
    IF i > Len(n.indices) THEN [ok |-> TRUE, IndexValues |-> IndexValues, s |-> s]
    ELSE LET Fail(s1) == [ok |-> FALSE, IndexValues |-> IndexValues, s |-> s1]
             Push(v) == ArrayAccessIndices(n, i + 1, Append(IndexValues, v.val), v.s)
             Index(c) ==
                 IF c.val = nullptr
                   THEN Fail(LogCompilerError(c.s, "Semantic",
                                              "Failed to generate code for array index"))
                 ELSE IF c.val.ty = "float"
                   THEN Fail(LogCompilerError(c.s, "Type",
                                              "Array index must be integer type, not float"))
                 ELSE IF c.val.ty = "i1" THEN Push(Create(c.s, "zext", "i32", <<c.val>>))
                 ELSE IF c.val.ty # "i32"
                   THEN Fail(LogCompilerError(c.s, "Type", "Array index must be integer type"))
                 ELSE Push(c)
         IN  Index(codegen(n.indices[i], s))

\* The subscript loop of ArrayAssignmentExprAST::codegen, from index i on.
ArrayAssignmentIndices(n, i, IndexValues, s) ==
    IF i > Len(n.indices) THEN [ok |-> TRUE, IndexValues |-> IndexValues, s |-> s]
    ELSE LET Fail(s1) == [ok |-> FALSE, IndexValues |-> IndexValues, s |-> s1]
             Push(v) == ArrayAssignmentIndices(n, i + 1, Append(IndexValues, v.val), v.s)
             Index(c) ==
                 IF c.val = nullptr
                   THEN Fail(LogCompilerError(c.s, "Semantic",
                                              "Failed to generate code for array index"))
                 ELSE IF c.val.ty = "float" THEN Push(Create(c.s, "fptosi", "i32", <<c.val>>))
                 ELSE IF c.val.ty = "i1" THEN Push(Create(c.s, "zext", "i32", <<c.val>>))
                 ELSE IF c.val.ty # "i32"
                   THEN Fail(LogCompilerError(c.s, "Semantic", "Array index must be an integer"))
                 ELSE Push(c)
         IN  Index(codegen(n.indices[i], s))

\* The array looked up by name: NamedValues[name], else GlobalValues[name]
\* (either subscript creates a null entry for a missing name); a pointer
\* parameter is loaded.  ptr is nullptr when there is no such variable.
ArrayLookup(name, s) ==
    LET Found(ArrayPtr, BaseType, isPointerParam, s1) ==
            [ptr |-> ArrayPtr, BaseType |-> BaseType, isPointerParam |-> isPointerParam, s |-> s1]
        Param(l) == Found(l.val, "ptr", TRUE, l.s)
        Local(ArrayAlloca, s1) ==
            IF ArrayAlloca.aux.allocated = "ptr"
              THEN Param(Insert(s1, "load", "ptr", <<ArrayAlloca>>, name \o "_ptr"))
              ELSE Found(ArrayAlloca, ArrayAlloca.aux.allocated, FALSE, s1)
        Global(s2) ==
            IF s2.globals[name] # nullptr
              THEN Found(s2.globals[name], s2.globals[name].valueType, FALSE, s2)
              ELSE Found(nullptr, "nullptr", FALSE, s2)
        Named(s1) ==
            IF s1.named[name] # nullptr THEN Local(s1.named[name], s1)
            ELSE Global([s1 EXCEPT !.globals = Subscript(@, name)])
    IN  Named([s EXCEPT !.named = Subscript(@, name)])

ArrayAccessAST_codegen(n, s) ==
    LET Loaded(a) == Insert(a.s, "load", a.ElementType, <<a.gep>>, "arrayelem")
        Indexed(a, ix) ==
            IF ~ix.ok THEN RetV(nullptr, ix.s)
            ELSE Loaded(ElementAddress(n.name, a.ptr, a.BaseType, a.isPointerParam,
                                       ix.IndexValues, ix.s))
        Indices(a) ==
            Indexed(a, ArrayAccessIndices(n, 1,
                           IF a.isPointerParam THEN << >> ELSE <<ConstantInt("i32", 0)>>, a.s))
        Dims(a, expectedDims) ==
            IF expectedDims > 0 /\ Len(n.indices) # expectedDims
              THEN RetV(nullptr, LogCompilerError(a.s, "Type",
                          "Array dimension mismatch for '" \o n.name \o "': array has "
                          \o ToString(expectedDims)
                          \o " dimension(s), but accessed with "
                          \o ToString(Len(n.indices)) \o " index/indices"))
              ELSE Indices(a)
        Array(a) ==
            IF a.ptr = nullptr
              THEN RetV(nullptr, LogCompilerError(a.s, "Semantic",
                                                  "Unknown array variable: " \o n.name))
            ELSE IF ~isArrayTy(a.BaseType) /\ a.BaseType # "ptr"
              THEN RetV(nullptr, LogCompilerError(a.s, "Type",
                          "Subscript operator [] requires array or pointer type, got scalar"))
            ELSE Dims(a, IF getTypeInfo(a.s, n.name) # nullptr
                           THEN countArrayDimensions(getTypeInfo(a.s, n.name).typeName)
                           ELSE 0)
    IN  Array(ArrayLookup(n.name, s))

ArrayAssignmentExprAST_codegen(n, s) ==
    LET Stored(Val, a, s1) == RetV(Val, Insert(s1, "store", "void", <<Val, a.gep>>, "").s)
        Cast(c, a) ==
            IF c.val = nullptr
              THEN RetV(nullptr, LogCompilerError(c.s, "Semantic",
                                                  "Type mismatch in array assignment"))
              ELSE Stored(c.val, a, c.s)
        Element(Val, a) ==
            IF Val.ty # a.ElementType THEN Cast(castToType(Val, a.ElementType, FALSE, a.s), a)
            ELSE Stored(Val, a, a.s)
        Indexed(Val, a, ix) ==
            IF ~ix.ok THEN RetV(nullptr, ix.s)
            ELSE Element(Val, ElementAddress(n.lhs.name, a.ptr, a.BaseType, a.isPointerParam,
                                             ix.IndexValues, ix.s))
        Array(Val, a) ==
            IF a.ptr = nullptr
              THEN RetV(nullptr, LogCompilerError(a.s, "Semantic",
                                                  "Unknown array variable: " \o n.lhs.name))
              ELSE Indexed(Val, a, ArrayAssignmentIndices(n.lhs, 1,
                               IF a.isPointerParam THEN << >> ELSE <<ConstantInt("i32", 0)>>,
                               a.s))
        Rhs(c) == IF c.val = nullptr THEN c ELSE Array(c.val, ArrayLookup(n.lhs.name, c.s))
    IN  Rhs(codegen(n.rhs, s))

\* ASTnode::codegen(): the virtual call, dispatched on the node's class.
codegen(n, s) ==
    CASE n.kind = "Int"   -> RetV(ConstantInt("i32", n.val), s)
      [] n.kind = "Float" -> RetV(ConstantFP(n.val), s)
      [] n.kind = "Bool"  -> RetV(ConstantInt("i1", IF n.val THEN 1 ELSE 0), s)
      [] n.kind = "Var"    -> VariableASTnode_codegen(n, s)
      [] n.kind = "Binary" -> BinaryExprAST_codegen(n, s)
      [] n.kind = "Unary"  -> UnaryExprAST_codegen(n, s)
      [] n.kind = "Assign" -> AssignmentExprAST_codegen(n, s)
      [] n.kind = "Call"   -> CallExprAST_codegen(n, s)
      [] n.kind = "ArrayAccess" -> ArrayAccessAST_codegen(n, s)
      [] n.kind = "ArrayAssign" -> ArrayAssignmentExprAST_codegen(n, s)
      [] n.kind = "If"     -> IfExprAST_codegen(n, s)
      [] n.kind = "While"  -> WhileExprAST_codegen(n, s)
      [] n.kind = "Return" -> ReturnAST_codegen(n, s)
      [] n.kind = "Block"  -> BlockAST_codegen(n, s)
      [] n.kind = "FunctionDecl" -> FunctionDeclAST_codegen(n, s)
      [] n.kind = "Proto"        -> FunctionPrototypeAST_codegen(n, s)
      [] n.kind = "GlobVarDecl"  -> GlobVarDeclAST_codegen(n, s)
      [] n.kind = "ArrayDecl"    -> ArrayDeclAST_codegen(n, s)

-----------------------------------------------------------------------------
(* Top-level declarations.  ParseDecl lowers what it has parsed; its result *)
(* also says whether TOKEN::validateType ended the process with exit(2).    *)

RetDecl(node, p, exit) == [node |-> node, p |-> p, exit |-> exit]

TypeSpec == {"VOID_TOK", "INT_TOK", "FLOAT_TOK", "BOOL_TOK"}

ParseDecl(p) ==
    LET PrevTok == p.cur
        q == getNextToken(p)
        r == getNextToken(q)
        IdName == q.cur.lexeme
        Lowered(node, c) == RetDecl(node, c.s, FALSE)
        Body(P, b) ==
            IF b.node = Null THEN RetDecl(Null, b.p, FALSE)
            ELSE Lowered(FunctionDeclAST(FunctionPrototypeAST(IdName, PrevTok.lexeme, P), b.node),
                         FunctionDeclAST_codegen(
                             FunctionDeclAST(FunctionPrototypeAST(IdName, PrevTok.lexeme, P), b.node),
                             b.p))
        Params(P) ==
            IF P.p.cur.type # "RPAR"
              THEN RetDecl(Null, LogError(P.p, "expected ')' in function declaration"), FALSE)
            ELSE IF getNextToken(P.p).cur.type # "LBRA"
              THEN RetDecl(Null, LogError(getNextToken(P.p),
                             "expected '{' in function declaration, function body"), FALSE)
            ELSE Body(P.list, Parse("ParseBlock", getNextToken(P.p)))
        Array(d) ==
            IF ~d.ok THEN RetDecl(Null, d.p, FALSE)
            ELSE IF d.p.cur.type # "SC"
              THEN RetDecl(Null, LogError(d.p, "expected ';' after array declaration"), FALSE)
            ELSE IF PrevTok.type = "VOID_TOK"
              THEN RetDecl(Null, LogError(getNextToken(d.p),
                             "Cannot have array declaration with type 'void'"), FALSE)
            ELSE Lowered(ArrayDeclAST(IdName, PrevTok.lexeme, d.dims, TRUE),
                         ArrayDeclAST_codegen(ArrayDeclAST(IdName, PrevTok.lexeme, d.dims, TRUE),
                                 getNextToken(d.p)))
        First(d) == IF d.ok THEN Array(ParseArrayDimsCont(d.dims, d.p)) ELSE RetDecl(Null, d.p, FALSE)
    IN  IF p.cur.type \notin TypeSpec
          THEN RetDecl(Null, LogError(p, "expected 'void', 'int' or 'float' or EOF token"), FALSE)
        ELSE IF q.cur.type # "IDENT" THEN RetDecl(Null, q, TRUE)
        ELSE CASE r.cur.type = "SC" ->
                    IF PrevTok.type # "VOID_TOK"
                      THEN Lowered(GlobVarDeclAST(IdName, PrevTok.lexeme),
                                   GlobVarDeclAST_codegen(GlobVarDeclAST(IdName, PrevTok.lexeme),
                                                          getNextToken(r)))
                      ELSE RetDecl(Null, LogError(getNextToken(r),
                                     "Cannot have variable declaration with type 'void'"), FALSE)
               [] r.cur.type = "LBOX" -> First(ParseArrayDim(<< >>, r))
               [] r.cur.type = "LPAR" -> Params(ParseParams(getNextToken(r)))
               [] OTHER -> RetDecl(Null, LogError(r, "expected ';' or ('"), FALSE)

\* ParseExtern: the prototype, or Null.
ParseExtern(p) ==
    LET q == getNextToken(p)
        PrevTok == q.cur
        r == getNextToken(q)
        IdName == r.cur.lexeme
        t == getNextToken(r)
        Params(P) ==
            IF Len(P.list) = 0 THEN Ret(Null, P.p)
            ELSE IF P.p.cur.type # "RPAR"
              THEN Ret(Null, LogError(P.p, "expected ')' in closing extern function declaration"))
            ELSE IF getNextToken(P.p).cur.type = "SC"
              THEN Ret(FunctionPrototypeAST(IdName, PrevTok.lexeme, P.list),
                       getNextToken(getNextToken(P.p)))
            ELSE Ret(Null, LogError(getNextToken(P.p),
                       "expected ;' in ending extern function declaration statement"))
    IN  IF p.cur.type # "EXTERN" THEN Ret(Null, p)
        ELSE IF q.cur.type \notin TypeSpec
          THEN Ret(Null, LogError(q, "expected 'void', 'int' or 'float' in extern function declaration"))
        ELSE IF r.cur.type # "IDENT" THEN Ret(Null, r)
        ELSE IF t.cur.type # "LPAR"
          THEN Ret(Null, LogError(t, "expected (' in extern function declaration"))
        ELSE Params(ParseParams(getNextToken(t)))

\* ParseExtern followed by the lowering of its prototype, as ParseExternList
\* and ParseExternListPrime do; the result says whether a prototype was parsed.
ParseExternAndLower(p) ==
    LET Lowered(c) == [ok |-> TRUE, p |-> c.s]
        Parsed_(e) == IF e.node = Null THEN [ok |-> FALSE, p |-> e.p]
                      ELSE Lowered(FunctionPrototypeAST_codegen(e.node, e.p))
    IN  Parsed_(ParseExtern(p))

\* ======================= Specifications =================================

\* TOKEN() = default: type = -100 (INVALID).
INVALID == [type |-> "INVALID", lexeme |-> ""]

\* The parser state main() hands to the parser: the input opened and the
\* first token fetched by getNextToken().
Start(text) ==
    getNextToken([cur |-> INVALID, buf |-> << >>, src |-> Lex(text),
                  errs |-> << >>, has |-> FALSE])

\* The parser state held in the variables.
ParserState ==
    [cur |-> CurTok, buf |-> tok_buffer, src |-> source, errs |-> ErrorLog, has |-> HasErrors]

\* The lowering state before anything has been lowered: an empty module, no
\* insert block, empty symbol tables.
InitLowering ==
    /\ TheModule = [funcs |-> << >>, blocks |-> << >>]
    /\ Builder = [ip |-> 0, nextId |-> 1]
    /\ NamedValues = << >>
    /\ GlobalValues = << >>
    /\ SymbolTypeTable = << >>
    /\ VariableTypes = << >>
    /\ CurrentFunctionParams = {}
    /\ CurrentFunction = ""

\* The whole compiler state held in the variables, as the record the parse
\* and lowering operators work on; and its assignment to the variables.
CompilerState ==
    [cur |-> CurTok, buf |-> tok_buffer, src |-> source, errs |-> ErrorLog, has |-> HasErrors,
     funcs |-> TheModule.funcs, blocks |-> TheModule.blocks,
     ip |-> Builder.ip, nextId |-> Builder.nextId,
     named |-> NamedValues, globals |-> GlobalValues, symtab |-> SymbolTypeTable,
     vtypes |-> VariableTypes, fparams |-> CurrentFunctionParams, curfn |-> CurrentFunction,
     asserts |-> ~NDEBUG, aborted |-> FALSE, overflow |-> FALSE]

Becomes(s) ==
    /\ CurTok' = s.cur
    /\ tok_buffer' = s.buf
    /\ source' = s.src
    /\ ErrorLog' = s.errs
    /\ HasErrors' = s.has
    /\ TheModule' = [funcs |-> s.funcs, blocks |-> s.blocks]
    /\ Builder' = [ip |-> s.ip, nextId |-> s.nextId]
    /\ NamedValues' = s.named
    /\ GlobalValues' = s.globals
    /\ SymbolTypeTable' = s.symtab
    /\ VariableTypes' = s.vtypes
    /\ CurrentFunctionParams' = s.fparams
    /\ CurrentFunction' = s.curfn

-----------------------------------------------------------------------------
(* SpecParse: ParseExper of either file applied to bounded token sequences. *)

MaxOps == 3      \* binary operators in a generated operator chain
MaxTail == 3     \* tokens following the leading identifier

BinOps == {"||", "&&", "==", "!=", "<", "<=", ">", ">=", "+", "-", "*", "/", "%"}
Operands == <<"a", "b", "c", "d", "e", "f", "g">>

RECURSIVE SeqsUpTo(_, _)
SeqsUpTo(S, n) ==
    IF n = 0 THEN {<< >>}
    ELSE LET shorter == SeqsUpTo(S, n - 1)
         IN  shorter \cup {Append(t, x) : t \in {u \in shorter : Len(u) = n - 1}, x \in S}

\* a op1 b op2 c ... : operands a, b, c, ... joined by the operators ops.
Chain(ops) ==
    [i \in 1..(2 * Len(ops) + 1) |->
        IF i % 2 = 1 THEN Operands[(i + 1) \div 2] ELSE ops[i \div 2]]

ChainInputs == {Chain(ops) : ops \in SeqsUpTo(BinOps, MaxOps) \ {<< >>}}

SpecSentence == <<"a", "||", "b", "&&", "c", "==", "d", "<", "e", "+", "f", "*", "g">>

\* A unary operator or a primary (call, literal) beside a binary operator.
UnaryInputs ==
    {<<u, "a", op, "b">> : u \in {"-", "!"}, op \in BinOps}
    \cup {<<"a", op, u, "b">> : u \in {"-", "!"}, op \in BinOps}
    \cup {<<"f", "(", ")", op, "1">> : op \in BinOps}
    \cup {<<"1.5", op, "true">> : op \in BinOps}

\* The same sentence over other primaries: literals and a call.
SpecSentencePrimaries ==
    <<"1", "||", "f", "(", ")", "&&", "true", "==", "1.5", "<", "x", "+", "5", "*", "y">>

PrecInputs == ChainInputs \cup {SpecSentence, SpecSentencePrimaries} \cup UnaryInputs

TailAlphabet == {"=", "x", "1", "+", "(", ")", "[", "]", ",", "=="}
\* Longer sentences starting with x: subscript, call, chained assignment.
LongIdentInputs ==
    { <<"x", "[", "1", "]", "=", "1">>, <<"x", "[", "1", "]", "[", "x", "]", "=", "x", "=", "1">>,
      <<"x", "[", "1", "]", "+", "1">>, <<"x", "(", ")", "=", "1">>,
      <<"x", "(", "x", "=", "1", ",", "1", ")">>, <<"x", "=", "x", "=", "1", "+", "x">>,
      <<"x", "+", "x", "=", "1">>, <<"x", "=", "(", "x", "=", "1", ")">> }

IdentInputs == {<<"x">> \o t : t \in SeqsUpTo(TailAlphabet, MaxTail)} \cup LongIdentInputs

\* Chains of assignments x = y = ... = e, and stacks of unary operators.
AssignTargets == SeqsUpTo({"x", "y"}, MaxOps) \ {<< >>}
AssignValues == {<<"1">>, <<"a", "+", "b">>, <<"-", "a">>}
RECURSIVE AssignChain(_, _)
AssignChain(targets, value) ==
    IF targets = << >> THEN value
    ELSE <<Head(targets), "=">> \o AssignChain(Tail(targets), value)
AssignChainInputs == {AssignChain(t, v) : t \in AssignTargets, v \in AssignValues}
UnaryStacks == SeqsUpTo({"-", "!"}, MaxOps) \ {<< >>}
UnaryStackInputs == {Append(u, "x") : u \in UnaryStacks}

ParseInputs == PrecInputs \cup IdentInputs \cup AssignChainInputs \cup UnaryStackInputs

InitParse ==
    /\ input \in ParseInputs
    /\ unit \in {"mccomp", "parser"}
    /\ CurTok = Start(input).cur
    /\ tok_buffer = Start(input).buf
    /\ source = Start(input).src
    /\ ErrorLog = << >>
    /\ HasErrors = FALSE
    /\ ast = Null
    /\ pc = "input"
    /\ InitLowering
    /\ exitCode = -1
    /\ output_ll = FALSE
    /\ NDEBUG = TRUE
    /\ Lexer = LexerStart(<< >>)

Parsed(r) ==
    /\ ast' = r.node
    /\ CurTok' = r.p.cur
    /\ tok_buffer' = r.p.buf
    /\ source' = r.p.src
    /\ ErrorLog' = r.p.errs
    /\ HasErrors' = r.p.has
    /\ pc' = "parsed"
    /\ UNCHANGED <<unit, input, lowering, exitCode, output_ll, NDEBUG, Lexer>>

ApplyParseExper ==
    /\ pc = "input" /\ unit = "mccomp"
    /\ Parsed(ParseExper(ParserState))

ApplyParserCppParseExper ==
    /\ pc = "input" /\ unit = "parser"
    /\ Parsed(ParserCpp_ParseExper(ParserState))

NextParse == ApplyParseExper \/ ApplyParserCppParseExper

SpecParse == InitParse /\ [][NextParse]_vars

-----------------------------------------------------------------------------
(* Spec: the driver main() of src/mccomp.cpp run on a set of programs.     *)

Types == {"bool", "int", "float"}

\* type name(params) { body }
Fn(type, name, params, body) == <<type, name, "(">> \o params \o <<")", "{">> \o body \o <<"}">>

MainReturns0 == Fn("int", "main", << >>, <<"return", "0", ";">>)

\* Conversion sites: a value e of type S assigned to a variable of type T,
\* passed for a parameter of type T, returned from a function of type T.
ConversionProgram(site, S, T) ==
    CASE site = "assign" ->
           Fn("int", "main", << >>,
              <<T, "v", ";", S, "e", ";", "v", "=", "e", ";", "return", "0", ";">>)
      [] site = "argument" ->
           Fn("int", "f", <<T, "p">>, <<"return", "0", ";">>)
           \o Fn("int", "main", << >>,
                 <<S, "e", ";", "f", "(", "e", ")", ";", "return", "0", ";">>)
      [] site = "return" ->
           Fn(T, "f", << >>, <<S, "e", ";", "return", "e", ";">>) \o MainReturns0

ConversionSites == {"assign", "argument", "return"}
ConversionPrograms == {ConversionProgram(site, S, T) : site \in ConversionSites, S \in Types, T \in Types}

\* Places whose target type is bool, given a value e of type S.
BoolContexts == {"if", "while", "!", "&&L", "&&R", "||L", "||R"}
BoolContextProgram(ctx, S) ==
    LET Decls == <<S, "e", ";", "bool", "b", ";", "bool", "r", ";">>
        Use == CASE ctx = "if"    -> <<"if", "(", "e", ")", "{", "b", "=", "true", ";", "}">>
                 [] ctx = "while" -> <<"while", "(", "e", ")", "{", "b", "=", "true", ";", "}">>
                 [] ctx = "!"     -> <<"r", "=", "!", "e", ";">>
                 [] ctx = "&&L"   -> <<"r", "=", "e", "&&", "b", ";">>
                 [] ctx = "&&R"   -> <<"r", "=", "b", "&&", "e", ";">>
                 [] ctx = "||L"   -> <<"r", "=", "e", "||", "b", ";">>
                 [] ctx = "||R"   -> <<"r", "=", "b", "||", "e", ";">>
    IN  Fn("int", "main", << >>, Decls \o Use \o <<"return", "0", ";">>)
BoolContextPrograms == {BoolContextProgram(ctx, S) : ctx \in BoolContexts, S \in Types}

\* src/comprehensive_tests/expr_tests/06_short_circuit.c, and the same with
\* bool operands throughout.
ShortCircuitTest ==
    Fn("int", "side_effect", << >>, <<"return", "1", ";">>)
    \o Fn("int", "main", << >>,
          <<"int", "x", ";", "bool", "result", ";",
            "x", "=", "0", ";", "result", "=", "x", "&&", "side_effect", "(", ")", ";",
            "x", "=", "1", ";", "result", "=", "x", "||", "side_effect", "(", ")", ";",
            "return", "0", ";">>)
ShortCircuitBool(op) ==
    Fn("bool", "side_effect", << >>, <<"return", "true", ";">>)
    \o Fn("int", "main", << >>,
          <<"bool", "x", ";", "bool", "result", ";",
            "x", "=", IF op = "&&" THEN "false" ELSE "true", ";",
            "result", "=", "x", op, "side_effect", "(", ")", ";",
            "return", "0", ";">>)
ShortCircuitPrograms == {ShortCircuitTest, ShortCircuitBool("&&"), ShortCircuitBool("||")}

MaxDepth == 2    \* nesting depth of the inner block in a scope program

RECURSIVE Nested(_, _)

\* An inner block (nested depth deep) that declares a local named inner of
\* type T, inside a function with the local int x that is returned afterwards.
Nested(depth, body) == IF depth <= 1 THEN <<"{">> \o body \o <<"}">>
                       ELSE <<"{">> \o Nested(depth - 1, body) \o <<"}">>
ScopeProgram(inner, T, depth) ==
    Fn("int", "f", << >>,
       <<"int", "x", ";">>
       \o Nested(depth, <<T, inner, ";", inner, "=", IF T = "float" THEN "1.5" ELSE "1", ";">>)
       \o <<"return", "x", ";">>)
    \o MainReturns0
ScopePrograms == {ScopeProgram(inner, T, depth) :
                    inner \in {"x", "y"}, T \in {"int", "float"}, depth \in 1..MaxDepth}

\* A global int g, a function f that has a parameter or a local named g of
\* type T, and a main that reads g.
GlobalProgram(how, T) ==
    <<"int", "g", ";">>
    \o (IF how = "param"
          THEN Fn("int", "f", <<T, "g">>, <<"return", "0", ";">>)
          ELSE Fn("int", "f", << >>,
                  <<T, "g", ";", "g", "=", IF T = "float" THEN "1.5" ELSE "1", ";",
                    "return", "0", ";">>))
    \o Fn("int", "main", << >>, <<"return", "g", ";">>)
GlobalPrograms == {GlobalProgram(how, T) : how \in {"param", "local"}, T \in {"int", "float"}}

\* Function bodies with a return inside an if branch, inside a while body,
\* and followed by further statements; and straight-line ones.
ReturnPrograms ==
    { Fn("int", "f", <<"int", "n">>,
         <<"if", "(", "n", "==", "0", ")", "{", "return", "1", ";", "}", "return", "0", ";">>)
      \o MainReturns0,
      Fn("int", "f", <<"int", "n">>,
         <<"if", "(", "n", "==", "0", ")", "{", "n", "=", "1", ";", "}",
           "else", "{", "return", "1", ";", "}", "return", "0", ";">>)
      \o MainReturns0,
      Fn("int", "f", <<"int", "n">>,
         <<"while", "(", "n", ">", "0", ")", "{", "return", "n", ";", "}", "return", "0", ";">>)
      \o MainReturns0,
      Fn("int", "main", << >>, <<"int", "x", ";", "return", "0", ";", "x", "=", "1", ";">>),
      Fn("int", "f", <<"int", "n">>,
         <<"if", "(", "n", "==", "0", ")", "{", "n", "=", "1", ";", "}", "return", "n", ";">>)
      \o MainReturns0,
      Fn("int", "f", <<"int", "n">>,
         <<"while", "(", "n", ">", "0", ")", "{", "n", "=", "n", "-", "1", ";", "}",
           "return", "n", ";">>)
      \o MainReturns0,
      <<"int", "x", ";">> \o Fn("void", "f", << >>, <<"x", "=", "1", ";">>) \o MainReturns0 }

\* src/comprehensive_tests/func_tests/10_mutual_recursion.c, and the same
\* program without the two forward prototypes.
EvenOddDefinitions ==
    Fn("int", "even", <<"int", "n">>,
       <<"if", "(", "n", "==", "0", ")", "{", "return", "1", ";", "}",
         "return", "odd", "(", "n", "-", "1", ")", ";">>)
    \o Fn("int", "odd", <<"int", "n">>,
          <<"if", "(", "n", "==", "0", ")", "{", "return", "0", ";", "}",
            "return", "even", "(", "n", "-", "1", ")", ";">>)
    \o Fn("int", "main", << >>, <<"return", "even", "(", "10", ")", ";">>)
MutualRecursionTest ==
    <<"int", "even", "(", "int", "n", ")", ";", "int", "odd", "(", "int", "n", ")", ";">>
    \o EvenOddDefinitions
MutualRecursionPrograms == {MutualRecursionTest, EvenOddDefinitions}

\* Programs with externs, with syntax errors, without main, and one on which
\* TOKEN::validateType ends the process.
ExternPrograms ==
    { <<"extern", "int", "print_int", "(", "int", "X", ")", ";">>
      \o Fn("int", "main", << >>, <<"print_int", "(", "1", ")", ";", "return", "0", ";">>),
      <<"extern", "int", "print_int", "(", "int", "X", ")", ";",
        "extern", "float", "print_float", "(", "float", "X", ")", ";">>
      \o Fn("int", "main", << >>, <<"print_int", "(", "1", ")", ";", "return", "0", ";">>),
      <<"extern", "int", "print_int", "(", "int", "X", ")", ";",
        "extern", "float", "print_float", "(", "float", "X", ")", ";",
        "extern", "int", "h", "(", "int", "X", ")", ";">>
      \o MainReturns0,
      <<"extern", "int", "print_int", "(", ")", ";">> \o MainReturns0,
      <<"extern", "int", "print_int", "(", "int", "X", ")", ";">> }
ErrorPrograms ==
    { << >>,
      <<"int", "x", ";">>,
      <<"int", "x">>,
      <<"int", "5", ";">>,
      <<"int", "x", ";", "float", "5", ";">>,
      <<"int", "x", ";", "void", "y", ";", "int", "5", ";">>,
      <<"void", "x", ";">> \o MainReturns0,
      <<"int", "x", ";", "int", "x", ";">> \o MainReturns0,
      Fn("int", "f", << >>, <<"return", "0", ";">>),
      <<"int", "x", ";">> \o Fn("int", "f", << >>, <<"return", "0", ";">>),
      Fn("int", "main", << >>, <<"return", "0">>),
      MainReturns0 \o <<"}">>,
      MainReturns0 \o <<"int", "x">>,
      MainReturns0 \o Fn("int", "f", << >>, <<"return", "y", ";">>),
      Fn("int", "f", << >>, <<"return", "y", ";">>) \o MainReturns0,
      Fn("int", "main", << >>, <<"return", "y", ";">>),
      Fn("int", "f", <<"int", "n", ",", "int", "n">>, <<"return", "0", ";">>) \o MainReturns0,
      Fn("void", "main", << >>, <<"return", "0", ";">>),
      Fn("int", "main", << >>, <<"return", ";">>) }

\* Arrays: a variable declared with N dimensions [10][5]..[5] (N = 0: a
\* scalar), globally or in main, and one element a[1][0]..[0] of it with M
\* subscripts read into v or assigned from v.
RECURSIVE Bracketed(_)
Bracketed(items) ==
    IF items = << >> THEN << >> ELSE <<"[", Head(items), "]">> \o Bracketed(Tail(items))
Subscripted(name, indices) == <<name>> \o Bracketed(indices)
ArrayDeclaration(T, name, N) ==
    <<T, name>> \o Bracketed([k \in 1..N |-> IF k = 1 THEN "10" ELSE "5"]) \o <<";">>
ArrayStatement(how, target) ==
    IF how = "read" THEN <<"v", "=">> \o target \o <<";">> ELSE target \o <<"=", "v", ";">>
ArrayProgram(where, how, N, indices) ==
    IF where = "global"
      THEN ArrayDeclaration("int", "a", N)
           \o Fn("int", "main", << >>,
                 <<"int", "v", ";">> \o ArrayStatement(how, Subscripted("a", indices))
                 \o <<"return", "0", ";">>)
      ELSE Fn("int", "main", << >>,
              ArrayDeclaration("int", "a", N) \o <<"int", "v", ";">>
              \o ArrayStatement(how, Subscripted("a", indices)) \o <<"return", "0", ";">>)
ArrayWheres == {"global", "local"}
ArrayHows == {"read", "write"}
DimensionPrograms ==
    {ArrayProgram(where, how, N, [k \in 1..M |-> IF k = 1 THEN "1" ELSE "0"]) :
        where \in ArrayWheres, how \in ArrayHows, N \in 0..MaxDims, M \in 1..MaxDims}
\* A subscript of each type: an int, float and bool literal, and a variable.
SubscriptPrograms ==
    {ArrayProgram(where, how, 1, <<i>>) :
        where \in ArrayWheres, how \in ArrayHows, i \in {"1", "1.5", "true", "v"}}
ArrayPrograms == DimensionPrograms \cup SubscriptPrograms

\* Two declarations of the name g, the second of another type: a global
\* variable, a global array, a function definition, an extern (first only)
\* or a local of main (second only).
Declaration(kind, T, n) ==
    CASE kind = "variable" -> <<T, "g", ";">>
      [] kind = "array"    -> <<T, "g", "[", "10", "]", ";">>
      [] kind = "function" -> Fn(T, "g", <<"int", "X">>, <<"return", n, ";">>)
      [] kind = "extern"   -> <<"extern", T, "g", "(", "int", "X", ")", ";">>
      [] kind = "local"    -> Fn("int", "main", << >>, <<T, "g", ";", "return", "0", ";">>)
FirstKinds == {"variable", "array", "function", "extern"}
SecondKinds == {"variable", "array", "function", "local"}
NamePairProgram(first, second) ==
    Declaration(first, "int", "1") \o Declaration(second, "float", "5")
    \o (IF second = "local" THEN << >> ELSE MainReturns0)
NamePairPrograms == {NamePairProgram(first, second) : first \in FirstKinds, second \in SecondKinds}

\* Arithmetic: x op y on a local x of type S and a local y of type T.
ArithOps == {"+", "-", "*", "/", "%"}
ArithmeticProgram(op, S, T) ==
    Fn("int", "main", << >>, <<S, "x", ";", T, "y", ";", "x", op, "y", ";", "return", "0", ";">>)
ArithmeticPrograms == {ArithmeticProgram(op, S, T) : op \in ArithOps, S \in Types, T \in Types}

\* Conditions: an if or a while statement in main whose condition is an
\* assignment to x or to a[1], or the comparison x == 1, after a function f.
Conditions ==
    [scalar |-> <<"x", "=", "1">>, element |-> <<"a", "[", "1", "]", "=", "1">>,
     comparison |-> <<"x", "==", "1">>]
ConditionProgram(stmt, cond) ==
    Fn("int", "f", << >>, <<"return", "0", ";">>)
    \o Fn("int", "main", << >>,
          <<"int", "x", ";", "int", "a", "[", "10", "]", ";", stmt, "(">> \o Conditions[cond]
          \o <<")", "{", "x", "=", "0", ";", "}", "return", "0", ";">>)
ConditionPrograms == {ConditionProgram(stmt, cond) : stmt \in {"if", "while"}, cond \in DOMAIN Conditions}

\* Division: e1 op e2 as a statement of main, and as the value it returns;
\* x is an int and y a float local.
DivisionProgram(e1, op, e2) ==
    Fn("int", "main", << >>,
       <<"int", "x", ";", "float", "y", ";", e1, op, e2, ";", "return", "0", ";">>)
ReturnsQuotient(e1, op, e2) == Fn("int", "main", << >>, <<"return", e1, op, e2, ";">>)
IntDividends == {"x", "1"}
FloatDividends == {"y", "1.5"}
ZeroDivisions ==
    {<<e1, op, "0">> : e1 \in IntDividends, op \in {"/", "%"}}
    \cup {<<e1, "/", "0.0">> : e1 \in FloatDividends}
NonZeroDivisions ==
    {<<e1, op, "5">> : e1 \in IntDividends, op \in {"/", "%"}}
    \cup {<<e1, "/", "1.5">> : e1 \in FloatDividends}
DivisionPrograms ==
    {DivisionProgram(d[1], d[2], d[3]) : d \in ZeroDivisions \cup NonZeroDivisions}
    \cup {ReturnsQuotient(d[1], d[2], d[3]) : d \in {<<"1", "/", "0">>, <<"1", "%", "0">>}}

\* Parameters: after f(int p), a function g(int n) that declares a local
\* variable or array called name, in its body (depth 0) or in a block nested
\* depth deep.
LocalOf(kind, name) ==
    IF kind = "variable" THEN <<"int", name, ";", name, "=", "1", ";">>
    ELSE <<"int", name, "[", "10", "]", ";", name, "[", "1", "]", "=", "1", ";">>
ShadowProgram(name, kind, depth) ==
    Fn("int", "f", <<"int", "p">>, <<"return", "0", ";">>)
    \o Fn("int", "g", <<"int", "n">>,
          (IF depth = 0 THEN LocalOf(kind, name) ELSE Nested(depth, LocalOf(kind, name)))
          \o <<"return", "0", ";">>)
    \o MainReturns0
ShadowPrograms ==
    {ShadowProgram(name, kind, depth) :
        name \in {"n", "p"}, kind \in {"variable", "array"}, depth \in 0..MaxDepth}

\* Statement lists with a faulty statement, first in the body of main or
\* after the statement x = 1; : a stray else, a statement that begins with
\* +, an empty statement, and an expression statement without its ';'.
FaultyStatements ==
    [else |-> <<"else">>, plus |-> <<"+", "x", ";">>, empty |-> <<";">>,
     unterminated |-> <<"x", "=", "5">>]
FaultyStatementProgram(fault, first) ==
    Fn("int", "main", << >>,
       <<"int", "x", ";">> \o (IF first THEN << >> ELSE <<"x", "=", "1", ";">>)
       \o FaultyStatements[fault] \o <<"return", "0", ";">>)
FaultyStatementPrograms ==
    {FaultyStatementProgram(fault, first) : fault \in DOMAIN FaultyStatements, first \in BOOLEAN}

\* A function f with a syntax error in its parameter list, in a local
\* declaration or in a statement of its body, followed by main.
BrokenFunctions ==
    [parameter   |-> Fn("int", "f", <<"int", "n", "int", "p">>, <<"return", "0", ";">>),
     declaration |-> Fn("int", "f", << >>, <<"int", "x", "int", "y", ";", "return", "0", ";">>),
     unterminated |-> Fn("int", "f", << >>, <<"int", "x", ";", "x", "=", "5", "return", "0", ";">>),
     empty       |-> Fn("int", "f", << >>, <<"int", "x", ";", ";", "return", "0", ";">>),
     unclosed    |-> Fn("int", "f", << >>, <<"int", "x", ";", "return", "(", "0", ";">>)]
BrokenFunctionProgram(fault) == BrokenFunctions[fault] \o MainReturns0
BrokenFunctionPrograms == {BrokenFunctionProgram(fault) : fault \in DOMAIN BrokenFunctions}

\* Array parameters: a function f(int a[d1]..[dN]) with N bracket suffixes,
\* the first with the size 10 or without a size, the k-th (k > 1) with the
\* size ParamSize(k); f reads or assigns the element of the N subscripts
\* ParamIndex(1), .., ParamIndex(N).
ParamSize(k) == IF k % 2 = 0 THEN "5" ELSE "10"
ParamIndex(k) == IF k = 3 THEN "5" ELSE "1"
ParamSuffixes(sized, N) ==
    (IF sized THEN <<"[", "10", "]">> ELSE <<"[", "]">>)
    \o Bracketed([k \in 1..(N - 1) |-> ParamSize(k + 1)])
ArrayParamProgram(sized, N, how) ==
    Fn("int", "f", <<"int", "a">> \o ParamSuffixes(sized, N),
       <<"int", "v", ";", "v", "=", "1", ";">>
       \o ArrayStatement(how, Subscripted("a", [k \in 1..N |-> ParamIndex(k)]))
       \o <<"return", "0", ";">>)
    \o MainReturns0
ArrayParamPrograms ==
    {ArrayParamProgram(sized, N, how) : sized \in BOOLEAN, N \in 1..MaxDims, how \in ArrayHows}

\* An extern declaration of g with the parameter list params, followed by
\* another extern or directly by main.
ExternParams == [empty |-> << >>, void |-> <<"void">>, one |-> <<"int", "X">>]
ExternProgram(params, followed) ==
    <<"extern", "int", "g", "(">> \o ExternParams[params] \o <<")", ";">>
    \o (IF followed THEN <<"extern", "int", "h", "(", "int", "X", ")", ";">> ELSE << >>)
    \o MainReturns0
ZeroParamExternPrograms ==
    {ExternProgram(params, followed) : params \in DOMAIN ExternParams, followed \in BOOLEAN}

\* Blocks without statements: the body of a void function f, the block of
\* an if or a while statement of f, each empty or with the local declaration
\* int y; alone; and the same blocks with the statement x = 1; in them.
BlockBodies ==
    [empty |-> << >>, declarations |-> <<"int", "y", ";">>,
     statement |-> <<"x", "=", "1", ";">>,
     both |-> <<"int", "y", ";", "x", "=", "1", ";">>]
BlockProgram(place, body) ==
    <<"int", "x", ";">>
    \o Fn("void", "f", << >>,
          CASE place = "function" -> BlockBodies[body]
            [] place = "if" -> <<"if", "(", "x", ")", "{">> \o BlockBodies[body] \o <<"}">>
            [] place = "while" -> <<"while", "(", "x", ")", "{">> \o BlockBodies[body] \o <<"}">>)
    \o MainReturns0
BlockPlaces == {"function", "if", "while"}
BlockPrograms == {BlockProgram(place, body) : place \in BlockPlaces, body \in DOMAIN BlockBodies}

Programs ==
    BlockPrograms \cup ZeroParamExternPrograms \cup ArrayParamPrograms \cup BrokenFunctionPrograms \cup FaultyStatementPrograms \cup ArrayPrograms \cup ShadowPrograms \cup DivisionPrograms \cup ConditionPrograms \cup NamePairPrograms \cup ArithmeticPrograms \cup ConversionPrograms \cup BoolContextPrograms \cup ShortCircuitPrograms \cup ScopePrograms
    \cup GlobalPrograms \cup ReturnPrograms \cup MutualRecursionPrograms
    \cup ExternPrograms \cup ErrorPrograms \cup {MainReturns0}

Init ==
    /\ input \in Programs
    /\ unit = "mccomp"
    /\ CurTok = INVALID
    /\ tok_buffer = << >>
    /\ source = Lex(input)
    /\ ErrorLog = << >>
    /\ HasErrors = FALSE
    /\ ast = Null
    /\ pc = "main"
    /\ InitLowering
    /\ exitCode = -1
    /\ output_ll = FALSE
    /\ NDEBUG \in BOOLEAN
    /\ Lexer = LexerStart(<< >>)

Running == UNCHANGED <<unit, input, exitCode, output_ll, NDEBUG, Lexer>>

Exit(code) ==
    /\ pc' = "exited"
    /\ exitCode' = code
    /\ UNCHANGED <<unit, input, NDEBUG, Lexer>>

\* main(): the input is opened and the first token read.
ReadFirstToken ==
    /\ pc = "main"
    /\ Becomes(getNextToken(CompilerState))
    /\ pc' = "parser"
    /\ UNCHANGED ast
    /\ Running

\* parser(): its first test; then ParseExternList.
ParseExternList ==
    /\ pc = "parser"
    /\ IF CurTok.type = "EOF_TOK"
         THEN /\ pc' = "parsed"
              /\ UNCHANGED <<CurTok, tok_buffer, source, ErrorLog, HasErrors, lowering>>
         ELSE LET Lowered(e) ==
                      /\ Becomes(e.p)
                      /\ pc' = IF e.ok /\ e.p.cur.type = "EXTERN" THEN "extern_list_prime"
                               ELSE "extern_list_done"
              IN  Lowered(ParseExternAndLower(CompilerState))
    /\ UNCHANGED ast
    /\ Running

\* One activation of ParseExternListPrime.
ParseExternListPrime ==
    /\ pc = "extern_list_prime"
    /\ CASE CurTok.type = "EXTERN" ->
              /\ Becomes(ParseExternAndLower(CompilerState).p)
              /\ pc' = "extern_list_prime"
         [] CurTok.type \in TypeSpec ->
              /\ pc' = "extern_list_done"
              /\ UNCHANGED <<CurTok, tok_buffer, source, ErrorLog, HasErrors, lowering>>
         [] OTHER ->
              /\ Becomes(LogError(CompilerState,
                                  "expected 'extern' or 'void', 'int', 'float', 'bool'"))
              /\ pc' = "extern_list_done"
    /\ UNCHANGED ast
    /\ Running

\* A ParseDecl result taken over by the driver: exit(2) ends the process,
\* and so does a failed LLVM assertion (abort(), exit status 134).
Declared(d, next) ==
    IF d.p.overflow \/ d.p.aborted
      THEN /\ Exit(IF d.p.overflow THEN 139 ELSE 134)
           /\ UNCHANGED <<CurTok, tok_buffer, source, ErrorLog, HasErrors, lowering, ast,
                          output_ll>>
      ELSE /\ Becomes(d.p)
           /\ ast' = d.node
           /\ IF d.exit THEN Exit(2) /\ UNCHANGED output_ll
              ELSE pc' = next[d.node # Null] /\ Running

\* parser(): its second test; then ParseDeclList up to its first ParseDecl.
ParseDeclList ==
    /\ pc = "extern_list_done"
    /\ IF CurTok.type = "EOF_TOK"
         THEN /\ pc' = "parsed"
              /\ UNCHANGED <<CurTok, tok_buffer, source, ErrorLog, HasErrors, lowering, ast>>
              /\ Running
         ELSE Declared(ParseDecl(CompilerState),
                       [ok \in BOOLEAN |-> IF ok THEN "decl_list_prime" ELSE "parsed"])

\* One activation of ParseDeclListPrime.
ParseDeclListPrime ==
    /\ pc = "decl_list_prime"
    /\ CASE CurTok.type \in TypeSpec ->
              Declared(ParseDecl(CompilerState), [ok \in BOOLEAN |-> "decl_list_prime"])
         [] CurTok.type = "EOF_TOK" ->
              /\ pc' = "parsed"
              /\ UNCHANGED <<CurTok, tok_buffer, source, ErrorLog, HasErrors, lowering, ast>>
              /\ Running
         [] OTHER ->
              /\ Becomes(LogError(CompilerState,
                                  "expected 'void', 'int', 'bool' or 'float' or EOF token"))
              /\ pc' = "parsed"
              /\ UNCHANGED ast
              /\ Running

\* main(): if (HasErrors) return 1, after parser().
CheckParserErrors ==
    /\ pc = "parsed"
    /\ IF HasErrors THEN Exit(1)
       ELSE pc' = "check_main" /\ UNCHANGED <<unit, input, exitCode, NDEBUG, Lexer>>
    /\ UNCHANGED <<CurTok, tok_buffer, source, ErrorLog, HasErrors, lowering, ast, output_ll>>

\* main() without the check for a function named main.
CheckMain_Unchecked ==
    /\ pc = "check_main"
    /\ pc' = "output"
    /\ UNCHANGED <<CurTok, tok_buffer, source, ErrorLog, HasErrors, lowering, ast, output_ll,
                   unit, input, exitCode, NDEBUG, Lexer>>

\* main(): the check for a function named main, and the second error test.
CheckMain ==
    /\ pc = "check_main"
    /\ LET Checked(s) ==
               /\ Becomes(s)
               /\ IF s.has THEN Exit(1)
                  ELSE pc' = "output" /\ UNCHANGED <<unit, input, exitCode, NDEBUG, Lexer>>
       IN  Checked(IF "main" \notin DOMAIN TheModule.funcs
                     THEN [LogCompilerError(CompilerState, "Semantic",
                                            "Program must have a 'main' function")
                             EXCEPT !.has = TRUE]
                     ELSE CompilerState)
    /\ UNCHANGED <<ast, output_ll>>

\* main(): output.ll is opened and the module printed to it.
WriteOutput ==
    /\ pc = "output"
    /\ output_ll' = TRUE
    /\ Exit(0)
    /\ UNCHANGED <<CurTok, tok_buffer, source, ErrorLog, HasErrors, lowering, ast>>

\* main(): raw_fd_ostream reports an error code; return 1.
OpenOutputFails ==
    /\ pc = "output"
    /\ Exit(1)
    /\ UNCHANGED <<CurTok, tok_buffer, source, ErrorLog, HasErrors, lowering, ast, output_ll>>

Next ==
    \/ ReadFirstToken
    \/ ParseExternList
    \/ ParseExternListPrime
    \/ ParseDeclList
    \/ ParseDeclListPrime
    \/ CheckParserErrors
    \/ CheckMain
    \/ WriteOutput
    \/ OpenOutputFails

Spec == Init /\ [][Next]_vars

-----------------------------------------------------------------------------
(* Properties of the expression parsers.                                   *)

\* Ladder level of a binary operator, 1 (lowest, `||`) to 6 (`* / %`).
OpLevel(op) ==
    CASE op = "||" -> 1
      [] op = "&&" -> 2
      [] op \in {"==", "!="} -> 3
      [] op \in {"<", "<=", ">", ">="} -> 4
      [] op \in {"+", "-"} -> 5
      [] op \in {"*", "/", "%"} -> 6

\* The lexemes of an expression tree read left to right (calls without
\* arguments, no parentheses).
RECURSIVE Flatten(_)
Flatten(n) ==
    CASE n.kind = "Binary" -> Flatten(n.lhs) \o <<n.op>> \o Flatten(n.rhs)
      [] n.kind = "Unary"  -> <<n.op>> \o Flatten(n.operand)
      [] n.kind = "Var"    -> <<n.name>>
      [] n.kind = "Call"   -> <<n.callee, "(", ")">>
      [] n.kind = "Int"    -> <<CHOOSE l \in IntLits : getIntVal(TOKEN(l)) = n.val>>
      [] n.kind = "Float"  -> <<n.val>>
      [] n.kind = "Bool"   -> <<IF n.val THEN "true" ELSE "false">>

\* No operator has an operand built by an operator of a lower ladder level,
\* and a unary operator applies to a unary or primary only.
RECURSIVE BindsTighter(_)
BindsTighter(n) ==
    CASE n.kind = "Binary" ->
           /\ BindsTighter(n.lhs) /\ BindsTighter(n.rhs)
           /\ n.lhs.kind = "Binary" => OpLevel(n.lhs.op) >= OpLevel(n.op)
           /\ n.rhs.kind = "Binary" => OpLevel(n.rhs.op) >= OpLevel(n.op)
      [] n.kind = "Unary" -> n.operand.kind # "Binary" /\ BindsTighter(n.operand)
      [] OTHER -> TRUE

\* l1 op1 (l2 op2 (... ln)) over the operand nodes `leaves`, from position i.
RECURSIVE RightNested(_, _, _)
RightNested(ops, leaves, i) ==
    IF i > Len(ops) THEN leaves[i]
    ELSE BinaryExprAST(ops[i], leaves[i], RightNested(ops, leaves, i + 1))

SpecSentenceOps == <<"||", "&&", "==", "<", "+", "*">>

\* C10: Operator precedence.  Every parenthesis-free sentence of primaries,
\* unary and binary operators is parsed completely (a node, no diagnostic,
\* nothing left over) into a tree that reads back as the sentence and in
\* which a higher ladder level (||, &&, == !=, < <= > >=, + -, * / %, unary,
\* primary) binds tighter than every lower one; `a || b && c == d < e + f * g`
\* parses to a || (b && (c == (d < (e + (f * g))))), for variables and for
\* other primaries alike.
C10_Precedence ==
    (pc = "parsed" /\ input \in PrecInputs) =>
        /\ ast # Null /\ ErrorLog = << >> /\ CurTok = EOF_TOK
        /\ Flatten(ast) = input
        /\ BindsTighter(ast)
        /\ input = SpecSentence =>
              ast = RightNested(SpecSentenceOps,
                                [i \in 1..7 |-> VariableASTnode(Operands[i])], 1)
        /\ input = SpecSentencePrimaries =>
              ast = RightNested(SpecSentenceOps,
                                << IntASTnode(1), CallExprAST("f", << >>), BoolASTnode(TRUE),
                                   FloatASTnode("1.5"), VariableASTnode("x"), IntASTnode(5),
                                   VariableASTnode("y") >>, 1)

C10_Witness ==
    /\ pc = "parsed" /\ unit = "mccomp" /\ input = SpecSentence
    /\ ast.kind = "Binary" /\ ast.op = "||" /\ ast.rhs.op = "&&"
    /\ ast.rhs.rhs.rhs.rhs.rhs.op = "*"

\* What the unit's or-expression parser and ParseExper make of a text.
OrExprOf(u, text) ==
    IF u = "mccomp" THEN ParseOrExpr(Start(text)) ELSE ParserCpp_ParseOrExpr(Start(text))
ExperOf(u, text) ==
    IF u = "mccomp" THEN ParseExper(Start(text)) ELSE ParserCpp_ParseExper(Start(text))

\* C9: LL(2) assignment disambiguation.  For a sentence starting with the
\* identifier x: if the next token is `=`, ParseExper yields the Assign node
\* with target x over the expression that follows (no node if that expression
\* is ill-formed); otherwise it never yields an Assign node and its result -
\* node, diagnostics, current token, buffered and unread tokens - is that of
\* the or-expression parser run with no lookahead done (mccomp.cpp then turns
\* a subscript followed by `=` into an array assignment).
C9_AssignIffNextIsAssign ==
    (pc = "parsed" /\ input \in IdentInputs) =>
        LET Assigned(rhs) ==
              /\ ast = (IF rhs.node = Null THEN Null ELSE AssignmentExprAST("x", rhs.node))
              /\ ParserState = rhs.p
            Other(o) ==
              /\ ast.kind # "Assign"
              /\ IF unit = "mccomp" /\ isArrayAccess(o.node) /\ o.p.cur.type = "ASSIGN"
                   THEN ast # Null => ast.kind = "ArrayAssign" /\ ast.lhs = o.node
                   ELSE ast = o.node /\ ParserState = o.p
        IN  IF Len(input) >= 2 /\ input[2] = "="
              THEN Assigned(ExperOf(unit, SubSeq(input, 3, Len(input))))
              ELSE Other(OrExprOf(unit, input))

C9_Witness ==
    /\ pc = "parsed" /\ unit = "parser" /\ input = <<"x", "=", "x", "=", "1", "+", "x">>
    /\ ast.kind = "Assign" /\ ast.name = "x" /\ ast.rhs.kind = "Assign"
    /\ ast.rhs.rhs.kind = "Binary"

-----------------------------------------------------------------------------
(* Properties of the driver and of the lowered module.                     *)

\* The instructions of block bb, the blocks of function f, and every
\* instruction of f.
InstsOf(bb) == TheModule.blocks[bb].insts
BlocksOf(f) == {TheModule.funcs[f].bbs[k] : k \in DOMAIN TheModule.funcs[f].bbs}
Lowered(f) == f \in DOMAIN TheModule.funcs /\ TheModule.funcs[f].bbs # << >>
HasInst(f, P(_)) == \E bb \in BlocksOf(f) : \E i \in DOMAIN InstsOf(bb) : P(InstsOf(bb)[i])
ErrorTypes == {ErrorLog[i].type : i \in DOMAIN ErrorLog}

\* The last instruction of the last block of f.
LastInst(f) ==
    LET bbs == TheModule.funcs[f].bbs
        insts == InstsOf(bbs[Len(bbs)])
    IN  insts[Len(insts)]

\* C1: output.ll is written, and the exit code is 0, only with an empty error
\* log; once a diagnostic has been logged the driver never reaches the main
\* check or the output step with it, writes no output.ll and exits non-zero:
\* with 1 from main, or with 2 when TOKEN::validateType ended the process.
C1_NoOutputWithErrors ==
    /\ output_ll => ErrorLog = << >> /\ exitCode = 0
    /\ exitCode = 0 => output_ll /\ ErrorLog = << >>
    /\ pc = "output" => ErrorLog = << >>
    /\ (pc = "exited" /\ ErrorLog # << >>) => ~output_ll /\ exitCode \in {1, 2}
    /\ (pc = "exited" /\ ErrorLog # << >> /\ CurTok.type = "EOF_TOK") => exitCode = 1

\* A run that lowered main, logged an error elsewhere, and ended with exit
\* code 1 and no output.ll.
C1_Witness ==
    /\ pc = "exited" /\ ErrorLog # << >> /\ exitCode = 1 /\ ~output_ll
    /\ Lowered("main")

\* C2: in every function of a module lowered without diagnostic, every basic
\* block holds exactly one terminator, and it is the block's last instruction.
C2_OneTerminatorPerBlock ==
    ErrorLog = << >> =>
        \A f \in DOMAIN TheModule.funcs : \A bb \in BlocksOf(f) :
            /\ Cardinality({i \in DOMAIN InstsOf(bb) : IsTerminator(InstsOf(bb)[i])}) = 1
            /\ IsTerminator(InstsOf(bb)[Len(InstsOf(bb))])

\* C3: in main of a short-circuit program, the call of side_effect (the right
\* operand of && or ||) is in a block other than the entry block, and every
\* branch into that block is a conditional branch.
C3_RightOperandBehindBranch ==
    (input \in ShortCircuitPrograms /\ Lowered("main")) =>
        \A bb \in BlocksOf("main") :
            (\E i \in DOMAIN InstsOf(bb) :
                 InstsOf(bb)[i].op = "call" /\ InstsOf(bb)[i].aux = "side_effect")
            => /\ bb # TheModule.funcs["main"].bbs[1]
               /\ \A b2 \in BlocksOf("main") : \A i \in DOMAIN InstsOf(b2) :
                      (/\ InstsOf(b2)[i].op \in {"br", "condbr"}
                       /\ \E t \in DOMAIN InstsOf(b2)[i].aux : InstsOf(b2)[i].aux[t] = bb)
                      => InstsOf(b2)[i].op = "condbr"

\* The widening chain bool -> int -> float.
Widening(S, T) == <<S, T>> \in {<<"bool", "int">>, <<"bool", "float">>, <<"int", "float">>}
IsConversion(I) == I.op \in {"zext", "sitofp"}

\* C4: a program that assigns, passes or returns a value of type S where type
\* T # S is expected is lowered without diagnostic and with a conversion
\* instruction if T is reachable from S on the widening chain, and otherwise
\* logs a Type error.
C4_ConversionLaw ==
    \A site \in ConversionSites : \A S \in Types : \A T \in Types \ {S} :
        (pc = "exited" /\ input = ConversionProgram(site, S, T)) =>
            IF Widening(S, T)
              THEN /\ ErrorLog = << >>
                   /\ HasInst(IF site = "return" THEN "f" ELSE "main", IsConversion)
              ELSE "Type" \in ErrorTypes

\* C5: after an inner block that declares its own local (named like the outer
\* local x or not, of the same or a different type) has exited, the outer
\* block's `return x` is lowered without diagnostic, as a return of a load
\* from the storage of the outer x.
C5_OuterBindingRestored ==
    (pc = "exited" /\ input \in ScopePrograms) =>
        /\ ErrorLog = << >>
        /\ Lowered("f")
        /\ LastInst("f").op = "ret"
        /\ LastInst("f").args[1].op = "load"
        /\ LastInst("f").args[1].ty = "i32"
        /\ LastInst("f").args[1].args[1].aux.name = "x"

\* C6: after a function with a parameter or a local named like the global g
\* has been lowered, main's read of g is lowered without diagnostic, as a
\* load of type int from the global g.
C6_GlobalUnaltered ==
    (pc = "exited" /\ input \in GlobalPrograms) =>
        /\ ErrorLog = << >>
        /\ Lowered("main")
        /\ LastInst("main").op = "ret"
        /\ LastInst("main").args[1].op = "load"
        /\ LastInst("main").args[1].ty = "i32"
        /\ LastInst("main").args[1].args[1] = GlobalVariable("g", "i32")

\* The comparison against zero for a value of type S.
IsZeroTest(S, I) ==
    /\ I.op = (IF S = "int" THEN "icmp ne" ELSE "fcmp one")
    /\ I.args[2] = (IF S = "int" THEN ConstantInt("i32", 0) ELSE ConstantFP("0.0"))
IsBoolResult(ctx, I) ==
    /\ I.op = (CASE ctx = "!" -> "not" [] ctx \in {"&&L", "&&R"} -> "and" [] OTHER -> "or")
    /\ I.ty = "i1"

\* C7: a value of type bool, int or float as the condition of if / while, the
\* operand of ! or an operand of && / || is accepted without diagnostic; an
\* int or float is compared against zero; the result of !, &&, || is bool.
C7_BoolCoercion ==
    \A ctx \in BoolContexts : \A S \in Types :
        (pc = "exited" /\ input = BoolContextProgram(ctx, S)) =>
            /\ ErrorLog = << >>
            /\ Lowered("main")
            /\ S # "bool" => HasInst("main", LAMBDA I : IsZeroTest(S, I))
            /\ ctx \notin {"if", "while"} => HasInst("main", LAMBDA I : IsBoolResult(ctx, I))

\* C8: the mutual-recursion test is accepted without diagnostic, even, odd and
\* main are lowered, and main ends by returning the result of the call
\* even(10).
C8_MutualRecursionCompiles ==
    (pc = "exited" /\ input = MutualRecursionTest) =>
        /\ ErrorLog = << >>
        /\ Lowered("even") /\ Lowered("odd") /\ Lowered("main")
        /\ LastInst("main").op = "ret"
        /\ LastInst("main").args[1].op = "call"
        /\ LastInst("main").args[1].aux = "even"
        /\ LastInst("main").args[1].args = <<ConstantInt("i32", 10)>>

-----------------------------------------------------------------------------
(* Associativity.                                                          *)

\* ((l1 op1 l2) op2 l3) ... over the operand nodes `leaves`, up to operator i.
RECURSIVE LeftNested(_, _, _)
LeftNested(ops, leaves, i) ==
    IF i = 0 THEN leaves[1]
    ELSE BinaryExprAST(ops[i], LeftNested(ops, leaves, i - 1), leaves[i + 1])

\* The operators of a chain a op1 b op2 c ..., and the chains of one level.
OpsOf(chain) == [i \in 1..((Len(chain) - 1) \div 2) |-> chain[2 * i]]
SameLevel(ops) == \A i, j \in DOMAIN ops : OpLevel(ops[i]) = OpLevel(ops[j])
SameLevelChains == {c \in ChainInputs : Len(c) >= 5 /\ SameLevel(OpsOf(c))}

\* t1 = (t2 = (... = value)), and u1 (u2 (... x)).
RECURSIVE RightAssigned(_, _), UnaryNested(_, _)
RightAssigned(targets, value) ==
    IF targets = << >> THEN value
    ELSE AssignmentExprAST(Head(targets), RightAssigned(Tail(targets), value))
UnaryNested(us, operand) ==
    IF us = << >> THEN operand ELSE UnaryExprAST(Head(us), UnaryNested(Tail(us), operand))

ValueNode(v) ==
    CASE v = <<"1">> -> IntASTnode(1)
      [] v = <<"a", "+", "b">> -> BinaryExprAST("+", VariableASTnode("a"), VariableASTnode("b"))
      [] v = <<"-", "a">> -> UnaryExprAST("-", VariableASTnode("a"))

\* C11: Associativity.  A chain of two or more binary operators of one ladder
\* level parses left-nested, ((a op1 b) op2 c) ...; a chain of assignments
\* parses right-nested, x = (y = e); stacked unary operators nest right to
\* left, -!x is -(!x).  Each is parsed completely and without diagnostic, by
\* the parser of either file.
C11_Associativity ==
    pc = "parsed" =>
        /\ input \in SameLevelChains =>
              /\ ErrorLog = << >> /\ CurTok = EOF_TOK
              /\ ast = LeftNested(OpsOf(input),
                                  [i \in 1..(Len(OpsOf(input)) + 1) |->
                                      VariableASTnode(Operands[i])],
                                  Len(OpsOf(input)))
        /\ \A t \in AssignTargets : \A v \in AssignValues :
              input = AssignChain(t, v) =>
                  /\ ErrorLog = << >> /\ CurTok = EOF_TOK
                  /\ ast = RightAssigned(t, ValueNode(v))
        /\ \A u \in UnaryStacks :
              input = Append(u, "x") =>
                  /\ ErrorLog = << >> /\ CurTok = EOF_TOK
                  /\ ast = UnaryNested(u, VariableASTnode("x"))

\* mccomp.cpp has parsed a - b + c - d into ((a - b) + c) - d.
C11_Witness ==
    /\ pc = "parsed" /\ unit = "mccomp"
    /\ input = <<"a", "-", "b", "+", "c", "-", "d">>
    /\ ast.op = "-" /\ ast.lhs.op = "+" /\ ast.lhs.lhs.op = "-"
    /\ ast.rhs = VariableASTnode("d")

-----------------------------------------------------------------------------
(* Arrays.                                                                 *)

\* The instructions of the module, by block and position.
InstAt ==
    UNION {{<<b, i>> : i \in DOMAIN TheModule.blocks[b].insts} : b \in DOMAIN TheModule.blocks}
Inst(at) == TheModule.blocks[at[1]].insts[at[2]]

\* An address computation: a getelementptr instruction, or the constant
\* expression it was folded to; its operands.
IsGEP(v) ==
    \/ v.op = "getelementptr"
    \/ v.op = "const" /\ ~v.lit /\ v.val.fold = "getelementptr"
GEPOperands(v) == IF v.op = "getelementptr" THEN v.args ELSE v.val.args
\* The places of the module's address computations: an instruction, or an
\* operand of one.
GEPPlaces ==
    {<<at, 0>> : at \in {a \in InstAt : Inst(a).op = "getelementptr"}}
    \cup UNION {{<<at, k>> : k \in {j \in DOMAIN Inst(at).args :
                                      Inst(at).args[j].op = "const" /\ IsGEP(Inst(at).args[j])}} :
                at \in InstAt}
GEPAt(place) == IF place[2] = 0 THEN Inst(place[1]) ELSE Inst(place[1]).args[place[2]]

\* An array element is loaded, or stored to.
ElementLoaded == \E at \in InstAt : Inst(at).op = "load" /\ IsGEP(Inst(at).args[1])
ElementStored == \E at \in InstAt : Inst(at).op = "store" /\ IsGEP(Inst(at).args[2])

Finished == exitCode # -1
ConstantSubscripts(M) == [k \in 1..M |-> IF k = 1 THEN "1" ELSE "0"]
\* The variable a of an array program: the global, or main's alloca.
IsArrayVariable(v) ==
    \/ v.op = "global" /\ v.name = "a"
    \/ v.op = "alloca" /\ v.aux.name = "a"

\* C12: for a variable a declared directly (a local of main or a global) with
\* N dimensions (N = 0: a scalar), a read a[i1]..[iM] and an assignment
\* a[i1]..[iM] = e with M # N log a Type error and emit no load of an
\* element and no store to one; with M = N >= 1 they lower to exactly one GEP
\* on a, with a leading constant 0 followed by the M indices.
C12_DimensionLaw ==
    \A where \in ArrayWheres, how \in ArrayHows, N \in 0..MaxDims, M \in 1..MaxDims :
        Finished /\ input = ArrayProgram(where, how, N, ConstantSubscripts(M))
        => IF M # N
             THEN "Type" \in ErrorTypes /\ ~ElementLoaded /\ ~ElementStored
             ELSE /\ Cardinality(GEPPlaces) = 1
                  /\ \A place \in GEPPlaces :
                        /\ Len(GEPOperands(GEPAt(place))) = M + 2
                        /\ IsArrayVariable(GEPOperands(GEPAt(place))[1])
                        /\ GEPOperands(GEPAt(place))[2] = ConstantInt("i32", 0)
                        /\ \A k \in 1..M :
                              GEPOperands(GEPAt(place))[k + 2]
                                = ConstantInt("i32", getIntVal(TOKEN(ConstantSubscripts(M)[k])))

-----------------------------------------------------------------------------
(* Names.                                                                  *)

TopLevelKinds == {"variable", "array", "function"}
\* What the first declaration of g (of type int) binds g to.
FirstBindingKept(first) ==
    CASE first = "variable" ->
           /\ "g" \in DOMAIN GlobalValues /\ GlobalValues["g"] = GlobalVariable("g", "i32")
           /\ "g" \in DOMAIN SymbolTypeTable /\ SymbolTypeTable["g"].typeName = "int"
      [] first = "array" ->
           /\ "g" \in DOMAIN GlobalValues
           /\ GlobalValues["g"] = GlobalVariable("g", ArrayType("i32", <<10>>))
           /\ "g" \in DOMAIN SymbolTypeTable /\ SymbolTypeTable["g"].typeName = "int[10]"
      [] first = "function" ->
           /\ "g" \in DOMAIN TheModule.funcs
           /\ TheModule.funcs["g"].ret = "i32"
           /\ Len(TheModule.funcs["g"].bbs) = 1

\* C13: a top-level declaration (global variable, global array or function
\* definition) of a name that an earlier top-level declaration of any of
\* these kinds has bound logs a Scope error and leaves the earlier binding
\* as it was.
C13_TopLevelNamesUnique ==
    \A first \in TopLevelKinds, second \in TopLevelKinds :
        Finished /\ input = NamePairProgram(first, second)
        => "Scope" \in ErrorTypes /\ FirstBindingKept(first)

\* A name bound to a variable: a global, or a local of the function being
\* lowered.
IsVariableName(name) ==
    \/ name \in DOMAIN GlobalValues /\ GlobalValues[name] # nullptr
    \/ name \in DOMAIN NamedValues /\ NamedValues[name] # nullptr
\* The pairs of declarations of g of which one binds a function and the
\* other a variable.
IsCollision(first, second) ==
    \/ first \in {"function", "extern"} /\ second \in {"variable", "array", "local"}
    \/ first \in {"variable", "array"} /\ second = "function"

\* C14: no name denotes both a function and a variable; a declaration of a
\* variable named like an existing function, and of a function named like an
\* existing global variable, is rejected with a Scope error, whichever of the
\* two was declared first.
C14_FunctionOrVariable ==
    /\ \A name \in DOMAIN TheModule.funcs : ~IsVariableName(name)
    /\ \A first \in FirstKinds, second \in SecondKinds :
          Finished /\ input = NamePairProgram(first, second) /\ IsCollision(first, second)
          => "Scope" \in ErrorTypes

-----------------------------------------------------------------------------
(* Arithmetic.                                                             *)

\* The instruction of an arithmetic operator on operands of one numeric type.
ArithmeticInstr(op, T) ==
    CASE op = "+" -> IF T = "int" THEN "add" ELSE "fadd"
      [] op = "-" -> IF T = "int" THEN "sub" ELSE "fsub"
      [] op = "*" -> IF T = "int" THEN "mul" ELSE "fmul"
      [] op = "/" -> IF T = "int" THEN "sdiv" ELSE "fdiv"
      [] op = "%" -> "srem"
ArithmeticInstrs ==
    {"add", "fadd", "sub", "fsub", "mul", "fmul", "sdiv", "fdiv", "srem", "frem"}
LLVMType(T) == CASE T = "int" -> "i32" [] T = "float" -> "float" [] T = "bool" -> "i1"
WellTyped(op, S, T) == S = T /\ S # "bool" /\ (op = "%" => S = "int")

\* C15: x op y with an arithmetic operator on operands of the types S and T
\* is lowered (to the one instruction of the operator, of the operands'
\* type, with nothing logged) exactly when S = T is int or float, and int
\* for %; every other combination logs a Type error and yields no value.
C15_ArithmeticTyping ==
    \A op \in ArithOps, S \in Types, T \in Types :
        Finished /\ input = ArithmeticProgram(op, S, T)
        => IF WellTyped(op, S, T)
             THEN /\ ErrorLog = << >>
                  /\ \E at \in InstAt : /\ Inst(at).op = ArithmeticInstr(op, S)
                                         /\ Inst(at).ty = LLVMType(S)
                                         /\ \A k \in 1..2 : Inst(at).args[k].op = "load"
                                                           /\ Inst(at).args[k].ty = LLVMType(S)
                  /\ \A at \in InstAt :
                        Inst(at).op \in ArithmeticInstrs => Inst(at).op = ArithmeticInstr(op, S)
             ELSE /\ "Type" \in ErrorTypes
                  /\ \A at \in InstAt : Inst(at).op \notin ArithmeticInstrs
C15_Witness ==
    /\ Finished /\ input = ArithmeticProgram("*", "int", "float")
    /\ ErrorTypes = {"Type"}
    /\ \E at \in InstAt : Inst(at).op = "load" /\ Inst(at).ty = "float"

-----------------------------------------------------------------------------
(* The driver's checks.                                                    *)

\* C16: main() tests for a function named main only once parser() has
\* consumed the whole source without a diagnostic; when the module then has
\* no function main, exactly one error, a Semantic one, is in the log, the
\* process exits with 1 and output.ll is not written.
C16_MissingMain ==
    /\ [](pc = "check_main" => CurTok.type = "EOF_TOK" /\ ErrorLog = << >> /\ ~HasErrors)
    /\ [][pc = "check_main" /\ "main" \notin DOMAIN TheModule.funcs
            => /\ Len(ErrorLog') = 1
               /\ ErrorLog'[1].type = "Semantic"
               /\ pc' = "exited" /\ exitCode' = 1
               /\ ~output_ll']_vars
    /\ [](\A i \in DOMAIN ErrorLog :
            ErrorLog[i].msg = "Program must have a 'main' function"
            => Len(ErrorLog) = 1 /\ pc = "exited" /\ exitCode = 1 /\ ~output_ll)
C16_Witness ==
    /\ input = <<"int", "x", ";">> \o Fn("int", "f", << >>, <<"return", "0", ";">>)
    /\ Lowered("f") /\ "x" \in DOMAIN GlobalValues
    /\ ErrorLog = <<[type |-> "Semantic", msg |-> "Program must have a 'main' function"]>>
    /\ exitCode = 1 /\ ~output_ll

\* C17: a diagnostic never ends the process where it is found: the process
\* ends with the code 1 whenever an error has been logged, and the code 2 is
\* never the reaction to a source text (e.g. to a type keyword at top level
\* followed by a token that is no identifier).
C17_ErrorsAccumulated ==
    /\ exitCode # 2
    /\ Finished /\ ErrorLog # << >> => exitCode = 1

\* C18: an if or while statement whose condition is an assignment (to a
\* variable or to an array element) makes the parser log the Syntax error
\* that suggests ==; the step that logs it yields no node and leaves the
\* module as it was, and the enclosing function is never lowered.
AssignmentInCondition == "assignment in condition is not allowed - use comparison (==) instead"
C18_AssignmentInCondition ==
    /\ [](\A stmt \in {"if", "while"}, cond \in {"scalar", "element"} :
            Finished /\ input = ConditionProgram(stmt, cond)
            => /\ \E i \in DOMAIN ErrorLog : ErrorLog[i] = [type |-> "Syntax", msg |-> AssignmentInCondition]
               /\ "main" \notin DOMAIN TheModule.funcs
               /\ \A at \in InstAt : Inst(at).op \notin {"alloca", "store", "br"}
               /\ exitCode = 1 /\ ~output_ll)
    /\ [][(\E i \in DOMAIN ErrorLog' : /\ i \notin DOMAIN ErrorLog
                                       /\ ErrorLog'[i].msg = AssignmentInCondition)
          => ast' = Null /\ TheModule' = TheModule]_vars
C18_Witness ==
    /\ Finished /\ input = ConditionProgram("while", "element")
    /\ ErrorLog[1] = [type |-> "Syntax", msg |-> AssignmentInCondition]
    /\ Lowered("f") /\ "main" \notin DOMAIN TheModule.funcs

\* C19: e1 / e2 and e1 % e2 with the literal 0 for e2 (0.0 for a float e1)
\* log the one Semantic error that names the zero divisor; no division or
\* remainder instruction is emitted, the process exits with 1 and output.ll
\* is not written.
DivisionInstrs == {"sdiv", "udiv", "fdiv", "srem", "urem", "frem"}
ZeroDivisorError(op) ==
    [type |-> "Semantic",
     msg |-> IF op = "/" THEN "Division by zero detected" ELSE "Modulo by zero detected"]
C19_DivisionByLiteralZero ==
    \A d \in ZeroDivisions :
        Finished /\ input \in {DivisionProgram(d[1], d[2], d[3]), ReturnsQuotient(d[1], d[2], d[3])}
        => /\ ErrorLog = <<ZeroDivisorError(d[2])>>
           /\ \A at \in InstAt : Inst(at).op \notin DivisionInstrs
           /\ exitCode = 1 /\ ~output_ll
C19_Witness ==
    /\ Finished /\ input = ReturnsQuotient("1", "/", "0")
    /\ ErrorLog = <<ZeroDivisorError("/")>>
    /\ exitCode = 1 /\ ~output_ll

\* The subscript operand of the module's one address computation.
SubscriptOperand == GEPOperands(GEPAt(CHOOSE place \in GEPPlaces : TRUE))[3]
IsWidenedBool(v) ==
    /\ v.ty = "i32"
    /\ \/ v.op = "zext" /\ v.args[1].ty = "i1"
       \/ v.op = "const" /\ ~v.lit /\ v.val.fold = "zext" /\ v.val.args[1].ty = "i1"

\* C20: a subscript of type float, in an array read and in the target of an
\* array assignment, is rejected with a Type error and no address is
\* computed; a bool subscript is widened to int, an int subscript is the
\* index as it is.
C20_SubscriptTyping ==
    \A where \in ArrayWheres, how \in ArrayHows :
        /\ Finished /\ input = ArrayProgram(where, how, 1, <<"1.5">>)
           => "Type" \in ErrorTypes /\ GEPPlaces = {}
        /\ Finished /\ input = ArrayProgram(where, how, 1, <<"true">>)
           => ErrorLog = << >> /\ Cardinality(GEPPlaces) = 1 /\ IsWidenedBool(SubscriptOperand)
        /\ Finished /\ input = ArrayProgram(where, how, 1, <<"1">>)
           => /\ ErrorLog = << >> /\ Cardinality(GEPPlaces) = 1
              /\ SubscriptOperand = ConstantInt("i32", 1)
        /\ Finished /\ input = ArrayProgram(where, how, 1, <<"v">>)
           => /\ ErrorLog = << >> /\ Cardinality(GEPPlaces) = 1
              /\ SubscriptOperand.op = "load" /\ SubscriptOperand.ty = "i32"

-----------------------------------------------------------------------------
(* Parameters.                                                             *)

\* C21: a local declaration (variable or array, in the body of the function
\* or in a nested block) named like a parameter of the function being
\* lowered logs a Scope error and the function is not lowered; a local named
\* like a parameter of an earlier function only is accepted.
C21_ParameterShadowing ==
    \A name \in {"n", "p"}, kind \in {"variable", "array"}, depth \in 0..MaxDepth :
        Finished /\ input = ShadowProgram(name, kind, depth)
        => /\ Lowered("f")
           /\ IF name = "n"
                THEN /\ ErrorLog = <<[type |-> "Scope",
                                      msg |-> "Local variable 'n' shadows function parameter"]>>
                     /\ "g" \notin DOMAIN TheModule.funcs
                     /\ exitCode = 1 /\ ~output_ll
                ELSE ErrorLog = << >> /\ Lowered("g") /\ Lowered("main")
C21_Witness ==
    /\ Finished /\ input = ShadowProgram("n", "array", MaxDepth)
    /\ ErrorTypes = {"Scope"} /\ "g" \notin DOMAIN TheModule.funcs

-----------------------------------------------------------------------------
(* The lexer alone: gettok called again and again on a file of bytes, each  *)
(* token appended to tok_buffer as peekToken's loop does.                   *)

MaxBytes == 4
MaxEOFs == 2

Bytes == {"a", "1", ".", "=", "/", ";", " ", "\n", "\r"}
Files == UNION {[1..n -> Bytes] : n \in 0..MaxBytes}

EOFsReturned == Cardinality({i \in DOMAIN tok_buffer : tok_buffer[i].type = "EOF_TOK"})

InitLex ==
    /\ input \in Files
    /\ unit = "lexer"
    /\ Lexer = LexerStart(input)
    /\ CurTok = INVALID
    /\ tok_buffer = << >>
    /\ source = << >>
    /\ ErrorLog = << >>
    /\ HasErrors = FALSE
    /\ ast = Null
    /\ pc = "lex"
    /\ InitLowering
    /\ exitCode = -1
    /\ output_ll = FALSE
    /\ NDEBUG = TRUE

\* tok_buffer.emplace_back(gettok());
CallGettok ==
    /\ pc = "lex"
    /\ EOFsReturned < MaxEOFs
    /\ LET Returned(g) == tok_buffer' = Append(tok_buffer, g.tok) /\ Lexer' = g.lx
       IN Returned(Lexer_gettok(Lexer))
    /\ UNCHANGED <<CurTok, source, ErrorLog, HasErrors, ast, unit, input, pc,
                   lowering, exitCode, output_ll, NDEBUG>>

NextLex == CallGettok

SpecLex == InitLex /\ [][NextLex]_vars

\* The bytes of the file gettok has not yet turned into a token or skipped:
\* those getc has still to return, and the one waiting in LastChar.
Unread(lx) ==
    (Len(lx.pFile) - lx.pos) + (IF lx.pos > 0 /\ lx.LastChar # EOF THEN 1 ELSE 0)

LastReturned == tok_buffer[Len(tok_buffer)]
EOFReturned == tok_buffer # << >> /\ LastReturned.type = "EOF_TOK"

StartOf(tok, lx) == (IF lx.LastChar = EOF THEN Len(lx.pFile) + 1 ELSE lx.pos) - tok.length

\* The bytes that end a line before position i: every LF, and every CR that
\* no LF follows (CR LF is one line break).
LineEnds(file, i) ==
    {j \in 1..(i - 1) : \/ file[j] = "\n"
                        \/ file[j] = "\r" /\ (j = Len(file) \/ file[j + 1] # "\n")}

LineOf(file, i) == 1 + Cardinality(LineEnds(file, i))

ColumnOf(file, i) ==
    LET breaks == {j \in 1..(i - 1) : file[j] \in {"\n", "\r"}}
    IN i - (IF breaks = {} THEN 0 ELSE CHOOSE j \in breaks : \A k \in breaks : k <= j)

Positioned(tok, lx) ==
    /\ tok.lineNo = LineOf(lx.pFile, StartOf(tok, lx))
    /\ tok.columnNo = ColumnOf(lx.pFile, StartOf(tok, lx))

TokenReturned == tok_buffer' # tok_buffer /\ tok_buffer'[Len(tok_buffer')].type # "EOF_TOK"

\* C29: every token gettok returns carries the line (1 plus the number of line
\* breaks before it, CR LF being one line break) and the 1-based column of the
\* first character of its lexeme.
C29_TokenPositions ==
    [][TokenReturned => Positioned(tok_buffer'[Len(tok_buffer')], Lexer')]_vars

\* The same for the files that hold no CR.
C29_PositionsWithoutCR ==
    [][TokenReturned /\ (\A i \in DOMAIN input : input[i] # "\r")
          => Positioned(tok_buffer'[Len(tok_buffer')], Lexer')]_vars

\* The column alone, for every file.
C29_Columns ==
    [][TokenReturned
          => tok_buffer'[Len(tok_buffer')].columnNo
                = ColumnOf(input, StartOf(tok_buffer'[Len(tok_buffer')], Lexer'))]_vars

\* C23: the parser returns on every token stream: a statement list whose
\* current token makes ParseStmt fail without reading a token (a stray else,
\* a leading +) does not recurse for ever, and a missing ';' is reported once.
C23_ParserReturns ==
    \A fault \in DOMAIN FaultyStatements, first \in BOOLEAN :
        Finished /\ input = FaultyStatementProgram(fault, first)
        => /\ exitCode # 139
           /\ ErrorLog # << >>
           /\ fault = "unterminated"
                => ErrorLog = <<[type |-> "Syntax",
                                 msg |-> "expected ';' to end expression statement"]>>

\* The same for the faulty statements that make ParseStmt read a token.
C23_ReturnsAfterReading ==
    \A fault \in {"empty", "unterminated"}, first \in BOOLEAN :
        Finished /\ input = FaultyStatementProgram(fault, first)
        => /\ exitCode = 1
           /\ Len(ErrorLog) = 1
           /\ fault = "unterminated"
                => ErrorLog = <<[type |-> "Syntax",
                                 msg |-> "expected ';' to end expression statement"]>>

\* The function f of a finished run is absent from the module.
NotInModule(f) ==
    /\ f \notin DOMAIN TheModule.funcs
    /\ \A b \in DOMAIN TheModule.blocks : TheModule.blocks[b].parent # f

\* C24: a function declaration during whose parsing a Syntax error was logged
\* (in its signature, a local declaration or a statement of its body) is not
\* lowered: no function and no instruction is created for it in the module.
C24_BrokenNotLowered ==
    \A fault \in DOMAIN BrokenFunctions :
        Finished /\ input = BrokenFunctionProgram(fault)
        => "Syntax" \in ErrorTypes /\ NotInModule("f")

\* The same for a Syntax error in the parameter list: ParseDecl returns
\* before it has made the FunctionDeclAST.
C24_BrokenSignatureNotLowered ==
    Finished /\ input = BrokenFunctionProgram("parameter")
    => "Syntax" \in ErrorTypes /\ NotInModule("f")

-----------------------------------------------------------------------------
(* The token buffer alone: getNextToken, peekToken and putBackToken called  *)
(* in any order on the tokens of a text whose lexemes are all different.    *)

MaxTokens == 2   \* tokens of the text
MaxPeek == 2     \* the largest offset peekToken is called with
MaxBuffer == 2   \* putBackToken is not called on a buffer of this length

BufferLexemes == {"x", "=", "1", ";"}
BufferInputs ==
    {t \in SeqsUpTo(BufferLexemes, MaxTokens) : \A i, j \in DOMAIN t : t[i] = t[j] => i = j}

InitBuf ==
    /\ input \in BufferInputs
    /\ unit = "buffer"
    /\ CurTok = INVALID
    /\ tok_buffer = << >>
    /\ source = Lex(input)
    /\ ErrorLog = << >>
    /\ HasErrors = FALSE
    /\ ast = [call |-> "none"]
    /\ pc = "lexed"
    /\ InitLowering
    /\ exitCode = -1
    /\ output_ll = FALSE
    /\ NDEBUG = TRUE
    /\ Lexer = LexerStart(<< >>)

\* The call made and the token it returned are kept in ast; pc tells whether
\* a token has been pushed back so far.
Called(call, p, pushed) ==
    /\ ast' = call
    /\ CurTok' = p.cur
    /\ tok_buffer' = p.buf
    /\ source' = p.src
    /\ pc' = IF pushed THEN "pushed" ELSE pc
    /\ UNCHANGED <<ErrorLog, HasErrors, unit, input, lowering, exitCode, output_ll,
                   NDEBUG, Lexer>>

CallGetNextToken ==
    LET Got(p) == Called([call |-> "getNextToken", tok |-> p.cur], p, FALSE)
    IN  Got(getNextToken(ParserState))

CallPeekToken ==
    \E offset \in 0..MaxPeek :
        LET Peeked(r) == Called([call |-> "peekToken", offset |-> offset, tok |-> r.tok],
                                r.p, FALSE)
        IN  Peeked(peekToken(ParserState, offset))

CallPutBackToken ==
    /\ Len(tok_buffer) < MaxBuffer
    /\ \E tok \in {CurTok} \cup {Lex(input)[i] : i \in DOMAIN input} :
          Called([call |-> "putBackToken", tok |-> tok], putBackToken(ParserState, tok), TRUE)

\* ParseExper of parser.cpp on an identifier that no '=' follows:
\* varTok = CurTok; getNextToken(); putBackToken(CurTok); CurTok = varTok;
Backtrack ==
    /\ Len(tok_buffer) < MaxBuffer
    /\ Called([call |-> "backtrack"],
              ParserCpp_PutBack(getNextToken(ParserState), ParserState.cur), TRUE)

NextBuf == CallGetNextToken \/ CallPeekToken \/ CallPutBackToken \/ Backtrack

SpecBuf == InitBuf /\ [][NextBuf]_vars

\* The tokens the next n calls of getNextToken return.
RECURSIVE NextTokens(_, _)
NextTokens(p, n) ==
    IF n = 0 THEN << >>
    ELSE LET Got(q) == <<q.cur>> \o NextTokens(q, n - 1) IN Got(getNextToken(p))

LookAhead == MaxTokens + MaxBuffer + 1

\* The tokens of the lexer, in its order: those of the text, then EOF.
LexerTokens == Lex(input) \o <<EOF_TOK>>
\* The place of a token in that order (0 for the CurTok before the first call).
PlaceOf(tok) ==
    IF tok = INVALID THEN 0 ELSE CHOOSE i \in DOMAIN LexerTokens : LexerTokens[i] = tok
After(i) == IF i < Len(LexerTokens) THEN i + 1 ELSE i

PeekLaw ==
    ast'.call = "peekToken"
    => /\ ast'.tok = NextTokens(ParserState, ast'.offset + 1)[ast'.offset + 1]
       /\ NextTokens(ParserState', LookAhead) = NextTokens(ParserState, LookAhead)
       /\ CurTok' = CurTok
GetLaw ==
    ast'.call = "getNextToken" /\ pc' = "lexed"
    => ast'.tok = LexerTokens[After(PlaceOf(CurTok))] /\ CurTok' = ast'.tok
PutBackLaw ==
    ast'.call = "putBackToken"
    => /\ NextTokens(ParserState', LookAhead + 1)
            = <<ast'.tok>> \o NextTokens(ParserState, LookAhead)
       /\ CurTok' = CurTok
BacktrackLaw ==
    ast'.call = "backtrack"
    => /\ NextTokens(ParserState', LookAhead) = NextTokens(ParserState, LookAhead)
       /\ CurTok' = CurTok

\* C25: the token buffer.  (a) peekToken(k) returns the token the (k+1)-th
\* following getNextToken returns and leaves the tokens getNextToken returns
\* later as they were; (b) as long as nothing has been pushed back,
\* getNextToken returns the lexer's tokens in the lexer's order, each once;
\* (c) after putBackToken(t) the next getNextToken returns t and the later
\* ones what they would have returned, so that reading a token, pushing it
\* back and restoring CurTok leaves the parser's tokens as they were.
C25_TokenBuffer == [][PeekLaw /\ GetLaw /\ PutBackLaw /\ BacktrackLaw]_vars

C25_Witness ==
    /\ pc = "pushed"
    /\ Len(input) = MaxTokens
    /\ Len(tok_buffer) > MaxPeek
    /\ source = << >>
    /\ ast.call = "peekToken" /\ ast.offset = MaxPeek
    /\ CurTok \notin {INVALID, EOF_TOK}

\* The function declaration of f has been parsed: ast is its node.
ParsedF == ast.kind = "FunctionDecl" /\ ast.Proto.name = "f"

\* C27: a parameter declared with N >= 1 bracket suffixes, the first with or
\* without a size, gets the pointer type "T*" followed by the dimensions 2..N;
\* it is never a scalar.
C27_ArrayParameterType ==
    \A sized \in BOOLEAN, N \in 1..MaxDims, how \in ArrayHows :
        ParsedF /\ input = ArrayParamProgram(sized, N, how)
        => ast.Proto.params[1].type
              = "int*" \o DimSuffix([k \in 1..(N - 1) |-> getIntVal(TOKEN(ParamSize(k + 1)))])

\* The same for the parameters whose first bracket has a size.
C27_SizedArrayParameterType ==
    \A N \in 1..MaxDims, how \in ArrayHows :
        ParsedF /\ input = ArrayParamProgram(TRUE, N, how)
        => ast.Proto.params[1].type
              = "int*" \o DimSuffix([k \in 1..(N - 1) |-> getIntVal(TOKEN(ParamSize(k + 1)))])

\* The number of elements an LLVM type holds.
RECURSIVE Elements(_)
Elements(Ty) ==
    IF isArrayTy(Ty)
      THEN LET Of(Shape) == Head(Shape[2]) * Elements(getElementType(Ty))
           IN  Of(CHOOSE bd \in {"i32", "float", "i1"} \X ArrayShapes : Ty = ArrayType(bd[1], bd[2]))
      ELSE 1

\* How many elements beyond the pointer it starts from an address lies that
\* is computed by getelementptr instructions of one constant index each.
RECURSIVE ElementOffset(_)
ElementOffset(v) ==
    IF v.op = "getelementptr"
      THEN ElementOffset(v.args[1]) + v.args[2].val * Elements(v.aux)
      ELSE 0

\* The row-major offset of the element with the subscripts ParamIndex(1..N)
\* in an array of the dimensions ParamSize(2..N).
RECURSIVE RowMajor(_)
RowMajor(N) ==
    IF N = 1 THEN getIntVal(TOKEN(ParamIndex(1)))
    ELSE RowMajor(N - 1) * getIntVal(TOKEN(ParamSize(N))) + getIntVal(TOKEN(ParamIndex(N)))

\* The addresses the function f loads an element from or stores one to.
ElementAddresses ==
    {Inst(at).args[1] : at \in {a \in InstAt : Inst(a).op = "load" /\ IsGEP(Inst(a).args[1])}}
    \cup {Inst(at).args[2] : at \in {a \in InstAt : Inst(a).op = "store" /\ IsGEP(Inst(a).args[2])}}

\* C26: for a parameter declared T a[d1][d2] the element a[i][j] is addressed
\* at i*d2 + j elements from the pointer passed, and for T a[d1][d2][d3] the
\* element a[i][j][k] at (i*d2 + j)*d3 + k elements, in reads and in
\* assignments.
C26_ParameterAddressing ==
    \A N \in 2..MaxDims, how \in ArrayHows :
        Finished /\ input = ArrayParamProgram(TRUE, N, how)
        => /\ ErrorLog = << >>
           /\ ElementAddresses # {}
           /\ \A v \in ElementAddresses : ElementOffset(v) = RowMajor(N)

\* The same for the parameters of two dimensions.
C26_TwoDimensions ==
    \A how \in ArrayHows :
        Finished /\ input = ArrayParamProgram(TRUE, 2, how)
        => /\ ErrorLog = << >>
           /\ ElementAddresses # {}
           /\ \A v \in ElementAddresses : ElementOffset(v) = RowMajor(2)

\* The extern g of a finished run was accepted: nothing is logged, g is a
\* function of the module with the given number of parameters and no body,
\* and what follows it was parsed and lowered.
ExternAccepted(params, followed) ==
    /\ ErrorLog = << >>
    /\ "g" \in DOMAIN TheModule.funcs
    /\ Len(TheModule.funcs["g"].params) = params
    /\ TheModule.funcs["g"].bbs = << >>
    /\ followed => "h" \in DOMAIN TheModule.funcs
    /\ Lowered("main")

\* C28: an extern declaration with an empty or a void parameter list is
\* accepted: no diagnostic, a prototype with zero parameters in the module,
\* and parsing goes on with the next extern or declaration.
C28_ZeroParameterExtern ==
    \A params \in {"empty", "void"}, followed \in BOOLEAN :
        Finished /\ input = ExternProgram(params, followed) => ExternAccepted(0, followed)

\* The same for an extern with one parameter.
C28_OneParameterExtern ==
    \A followed \in BOOLEAN :
        Finished /\ input = ExternProgram("one", followed) => ExternAccepted(1, followed)

\* C30: a block with no statements, empty or with local declarations only,
\* parses without a diagnostic and the function that holds it compiles.
C30_EmptyStatementLists ==
    \A place \in BlockPlaces, body \in {"empty", "declarations"} :
        Finished /\ input = BlockProgram(place, body)
        => ErrorLog = << >> /\ Lowered("f") /\ Lowered("main")

\* The same for the blocks that hold the statement x = 1;.
C30_BlocksWithStatements ==
    \A place \in BlockPlaces, body \in {"statement", "both"} :
        Finished /\ input = BlockProgram(place, body)
        => ErrorLog = << >> /\ Lowered("f") /\ Lowered("main")

====
